---- MODULE Spec2Model ----
(***************************************************************************)
(* A model of the spredd-api gateway core: the quote / prepare / execute   *)
(* trade pipeline with its persisted trade rows and position upsert, and   *)
(* the per-key token-bucket rate limiter.                                  *)
(*                                                                         *)
(* Spec         the trade pipeline (routes/trading.py), handlers of        *)
(*              several requests interleaving at their await points.       *)
(* SpecLimiter  the rate limiter (auth/rate_limiter.py, dependencies.py),  *)
(*              one dependency call at a time, the clock advancing         *)
(*              between calls.                                             *)
(* SpecThreads  TokenBucket.consume run by several worker threads on one   *)
(*              bucket with no lock, no time elapsing.                     *)
(* SpecReconfig the rate limiter while the limits stored on the APIKey     *)
(*              rows are changed between requests.                         *)
(* SpecLedger   upsert_position (services/position_tracker.py) called by   *)
(*              one caller at a time, from every row a key can have.       *)
(* SpecSessions upsert_position run by several database sessions on one    *)
(*              key, interleaving between the select and the commit.       *)
(* SpecFeed     the feed broadcast loop, the websocket handlers and the    *)
(*              lifespan shutdown (routes/feed_ws.py, main.py);            *)
(*              SpecFeedFair adds that every task is eventually resumed.   *)
(* SpecCanary   the staleness canary (services/canary.py) and the feed     *)
(*              outputs that carry it (routes/feed.py, routes/feed_ws.py). *)
(* SpecPages    the paginated market fetch of the Kalshi adapter           *)
(*              (platforms/kalshi.py), one page request at a time.         *)
(* SpecCache    the market cache of one adapter (platforms/*.py) used by   *)
(*              several callers interleaving at the upstream awaits.       *)
(* SpecAdapter  prepare_transaction and execute_trade of each adapter      *)
(*              (platforms/*.py), for every key type and upstream outcome. *)
(* SpecFee      the platform fee (services/fee.py) as the three trade      *)
(*              handlers compute, store and return it for one amount.      *)
(* SpecArb      the arbitrage scan (routes/arbitrage.py) over the markets  *)
(*              the venues return, for every min_spread and limit.         *)
(* SpecBook     get_orderbook of each adapter (platforms/*.py) and the     *)
(*              properties of OrderBook (platforms/base.py).               *)
(* SpecRegistry initialize_all and close_all of the platform registry      *)
(*              (platforms/registry.py), any adapter failing.              *)
(* SpecStore    RateLimiterStore.get_bucket run by several worker threads  *)
(*              for one cache key, with no lock.                           *)
(* SpecListing  GET /feed/markets for one platform (routes/feed.py), page  *)
(*              by page over the adapter's get_markets.                    *)
(***************************************************************************)
EXTENDS Integers, Sequences, FiniteSets, TLC

\* ------------------------------------------------------------------ bounds

\* Number of requests the pipeline handles (concurrently).
MaxReq == 2

\* ------------------------------------------------------------- pipeline

VARIABLES
    pc,         \* [Reqs -> position of the request's handler]
    req,        \* [Reqs -> the request: op, platform, side, market]
    trades,     \* the committed rows of the trades table, in insertion order
    positions,  \* the committed rows of the positions table, by key
    quoteOf,    \* [Reqs -> the Quote the adapter returned, or None]
    resultOf,   \* [Reqs -> the TradeResult the adapter returned, or None]
    posRead,    \* [Reqs -> the position row upsert_position selected]
    calls,      \* [Reqs -> how often each adapter / ledger call was made]
    tradeOf,    \* [Reqs -> index in trades of the Trade object the handler holds, 0 if none]
    pending,    \* [Reqs -> the response or HTTPException about to be handed back]
    resp        \* [Reqs -> what the caller received, or None]

pipelineVars == <<pc, req, trades, positions, quoteOf, resultOf, posRead, calls, tradeOf, pending, resp>>

VARIABLES
    now,        \* time.monotonic(), in ticks
    apiKeys,    \* [KeyIds -> the APIKey row's rate_limit_rpm and rate_limit_tpm]
    buckets,    \* RateLimiterStore._buckets: [cache key -> TokenBucket or None]
    lastCheck,  \* what the latest dependency call handed back
    nCalls,     \* number of dependency calls made
    freshLog    \* [cache key -> results of the consume() calls made at the bucket's creation instant]

limiterVars == <<now, apiKeys, buckets, lastCheck, nCalls, freshLog>>

VARIABLES
    tbucket,    \* the TokenBucket the worker threads share
    tokens0,    \* the tokens it held before the threads called consume()
    tpc,        \* [Threads -> position of the thread in consume()]
    ttmp,       \* [Threads -> the value the thread computed and has not stored yet]
    tret        \* [Threads -> what consume() returned to the thread, or NoneVal]

threadVars == <<tbucket, tokens0, tpc, ttmp, tret>>

VARIABLES
    row0,       \* the positions row of the key before the first upsert, or None
    ledger,     \* the committed positions row of the key, or None
    hist        \* the arguments of the upsert_position calls committed so far

ledgerVars == <<row0, ledger, hist>>

VARIABLES
    spc,        \* [Sessions -> position of the session in upsert_position]
    sargs,      \* [Sessions -> the arguments of its upsert_position call]
    ssel        \* [Sessions -> the row its select returned, or None]

sessionVars == <<spc, sargs, ssel>>

VARIABLES
    clients,    \* _clients, the set of accepted websockets
    sock,       \* [Sockets -> state of the connection and of its handler]
    lpc,        \* position of broadcast_loop
    copy,       \* _clients.copy() of the round
    todo,       \* the websockets of the copy the for loop has not reached
    cur,        \* the websocket whose send_text the loop is suspended in, 0 if none
    dead,       \* the dead list of the round
    sends,      \* the sends of the round and how each ended, in order
    rounds,     \* number of rounds completed
    life,       \* position of lifespan
    cancelPending,  \* task.cancel() was called and the CancelledError is yet to be thrown
    cancelAt,   \* the suspension point the CancelledError was thrown at, or NoneVal
    sentAfterCancel,    \* a send_text was started after task.cancel()
    closeCalls  \* the adapters whose close() was called

feedVars == <<clients, sock, lpc, copy, todo, cur, dead, sends, rounds, life,
              cancelPending, cancelAt, sentAfterCancel, closeCalls>>

VARIABLES
    enabled,        \* settings.feed_canary_enabled
    mono,           \* time.monotonic(), in seconds
    wall,           \* time.time(), in milliseconds
    current,        \* CanaryGenerator._current, or None
    lastRotation,   \* CanaryGenerator._last_rotation
    draws,          \* number of prices drawn by generate()
    got,            \* what the latest read of canary_generator.current returned
    feedOut         \* the latest feed output handed out, or None

canaryVars == <<enabled, mono, wall, current, lastRotation, draws, got, feedOut>>

VARIABLES
    ppc,        \* position of _fetch_all_markets: "loop", "after", "returned", "raised"
    pcursor,    \* cursor
    pcount,     \* number of page requests made
    pall,       \* all_markets: the number of records accumulated
    pres        \* what _fetch_all_markets returned: <<number of records>>, or Null

pageVars == <<ppc, pcursor, pcount, pall, pres>>

VARIABLES
    venue,      \* the adapter looked at
    ctime,      \* time.time(), in seconds
    cache,      \* _markets_cache: the list of markets
    cacheTime,  \* _markets_cache_time
    cpc,        \* [Callers -> position of the caller's get_markets / search_markets]
    ccall,      \* [Callers -> the call in progress: its op and the now it read]
    cres        \* what the latest call to end handed back: a list, or Raised

cacheVars == <<venue, ctime, cache, cacheTime, cpc, ccall, cres>>

VARIABLES
    xvenue,       \* the adapter looked at
    xfeeAccount,  \* settings.evm_fee_account / settings.kalshi_fee_account
    xfeeBps,      \* self._fee_bps
    xtxs,         \* what prepare_transaction returned: the transactions, Raised, or None
    xpc,          \* position of execute_trade
    xkey,         \* the type of the private_key passed to execute_trade
    xspender,     \* index of the spender whose allowance comes next
    xsigned,      \* number of transactions signed with the key
    xsent,        \* number of submissions made to a network
    xreceipts,    \* the statuses of the receipts waited for
    xres          \* what execute_trade returned, or None

adapterVars == <<xvenue, xfeeAccount, xfeeBps, xtxs, xpc, xkey, xspender, xsigned, xsent,
                 xreceipts, xres>>

VARIABLES
    famount,    \* req.amount, the same in the three requests
    fquote,     \* what get_quote did with the fee, or None
    fprepare,   \* what prepare_trade did with the fee, or None
    fexecute    \* what execute_trade did with the fee, or None

feeVars == <<famount, fquote, fprepare, fexecute>>

VARIABLES
    apc,        \* position of get_arbitrage_opportunities
    anext,      \* index of the adapter the loop visits next
    aall,       \* all_markets
    aseen,      \* the markets the venues returned, in order
    afailed,    \* the venues whose get_markets raised
    aopps,      \* opportunities
    amin,       \* min_spread of the request
    alimit,     \* limit of the request
    ares        \* the list returned, or None

arbVars == <<apc, anext, aall, aseen, afailed, aopps, amin, alimit, ares>>

VARIABLES
    bvenue,     \* the adapter whose get_orderbook is called
    bres        \* what get_orderbook returned: an OrderBook, Raised, or None

bookVars == <<bvenue, bres>>

VARIABLES
    rpc,        \* where lifespan is: in initialize_all, serving, in close_all, closed
    rnext,      \* index of the adapter the loop visits next
    rinit,      \* [adapter -> number of times its initialize was awaited]
    rclose,     \* [adapter -> number of times its close was awaited]
    rfailed     \* the calls that raised

registryVars == <<rpc, rnext, rinit, rclose, rfailed>>

\* RateLimiterStore.get_bucket run by worker threads for one (key, class):
\* gstore is the entry of _buckets under the cache key (0 while absent, else
\* the TokenBucket object), gobjs the TokenBucket objects created so far,
\* gpc and gheld each thread's position and the object get_bucket returned to
\* it, gcalls the number of checks begun, gconsumed the objects consume() was
\* called on, in order.
VARIABLES gstore, gobjs, gpc, gheld, gcalls, gconsumed

storeVars == <<gstore, gobjs, gpc, gheld, gcalls, gconsumed>>


\* GET /feed/markets?platform=...&limit=...&offset=... without search or
\* category: llen is the length of the platform's market list, lenabled
\* settings.feed_canary_enabled, lreq the latest request and lres its response.
VARIABLES llen, lenabled, lreq, lres

listingVars == <<llen, lenabled, lreq, lres>>


\* The components at the edge of the gateway: the canary, the feed outputs, the
\* adapters, the fee.
edgeVars == <<canaryVars, pageVars, cacheVars, adapterVars, feeVars,
             arbVars,
             bookVars,
             registryVars,
             storeVars,
             listingVars>>

\* The trade pipeline, the limiter, the ledger and the broadcast loop.
coreVars == <<pipelineVars, limiterVars, threadVars, ledgerVars, sessionVars, feedVars>>

\* The variables an action of one component leaves alone.
notPipeline == <<limiterVars, threadVars, ledgerVars, sessionVars, feedVars, edgeVars>>

notLimiter == <<pipelineVars, threadVars, ledgerVars, sessionVars, feedVars, edgeVars>>

notThreads == <<pipelineVars, limiterVars, ledgerVars, sessionVars, feedVars, edgeVars>>

notLedger == <<pipelineVars, limiterVars, threadVars, sessionVars, feedVars, edgeVars>>

notSessions == <<pipelineVars, limiterVars, threadVars, feedVars, edgeVars>>

notFeed == <<pipelineVars, limiterVars, threadVars, ledgerVars, sessionVars, edgeVars>>

notCanary == <<coreVars, pageVars, cacheVars, adapterVars, feeVars,
    arbVars,
    bookVars,
    registryVars,
    storeVars,
    listingVars>>

notPages == <<coreVars, canaryVars, cacheVars, adapterVars, feeVars,
    arbVars,
    bookVars,
    registryVars,
    storeVars,
    listingVars>>

notCache == <<coreVars, canaryVars, pageVars, adapterVars, feeVars,
    arbVars,
    bookVars,
    registryVars,
    storeVars,
    listingVars>>

notAdapter == <<coreVars, canaryVars, pageVars, cacheVars, feeVars,
    arbVars,
    bookVars,
    registryVars,
    storeVars,
    listingVars>>

notFee == <<coreVars, canaryVars, pageVars, cacheVars, adapterVars,
    arbVars,
    bookVars,
    registryVars,
    storeVars,
    listingVars>>

notArb == <<coreVars, canaryVars, pageVars, cacheVars, adapterVars, feeVars,
    bookVars,
    registryVars,
    storeVars,
    listingVars>>

notBook == <<coreVars, canaryVars, pageVars, cacheVars, adapterVars, feeVars, arbVars,
    registryVars,
    storeVars,
    listingVars>>

notRegistry == <<coreVars, canaryVars, pageVars, cacheVars, adapterVars, feeVars, arbVars, bookVars,
    storeVars,
    listingVars>>

notStore == <<coreVars, canaryVars, pageVars, cacheVars, adapterVars, feeVars, arbVars, bookVars, registryVars,
    listingVars>>

notListing == <<coreVars, canaryVars, pageVars, cacheVars, adapterVars, feeVars, arbVars, bookVars, registryVars, storeVars>>

\* Python's None: as a string where strings are expected, as a record where
\* objects are expected, and SQL NULL in a numeric column as the empty tuple.
NoneVal == "<none>"

None == [none |-> TRUE]

Null == <<>>

\* The adapter call raised instead of returning.
Raised == [raised |-> TRUE]

RECURSIVE GCD(_, _)
GCD(a, b) == IF b = 0 THEN a ELSE GCD(b, a % b)

\* The fraction n / d, reduced.
Frac(n, d) == [n |-> n \div GCD(n, d), d |-> d \div GCD(n, d)]

\* A stored price keeps this many binary digits after the point.
FloatBits == 3

RECURSIVE Pow2(_)
Pow2(n) == IF n = 0 THEN 1 ELSE 2 * Pow2(n - 1)

\* The prices a float in a Numeric(20, 10) column can hold: a fixed number of
\* digits after the point, in the model the multiples of 1 / FloatScale.
FloatScale == Pow2(FloatBits)

\* float(x) of the Decimal x, as stored: the nearest price the column holds.
Float(f) == Frac((2 * f.n * FloatScale + f.d) \div (2 * f.d), FloatScale)

Reqs == 1..MaxReq

\* The platform slugs a request can name: one the registry holds, one it does not.
Platforms == {"kalshi", "nowhere"}

\* PlatformRegistry.get: the adapter for a slug, or None.
RegistryGet(slug) == IF slug = "kalshi" THEN "kalshi_platform" ELSE NoneVal

Markets == {"m1"}

Ops == {"quote", "prepare", "execute"}

\* TradeStatus, in the order of the state machine.
TradeStatus == <<"quoted", "prepared", "submitted", "confirmed", "failed">>

\* The quotes an adapter's get_quote can return: expected_output and price_per_token.
Quotes ==
    { [expected_output |-> 2, price_per_token |-> 3] }

\* The TradeResults an adapter's execute_trade can return: every failure path of
\* the adapters sets error_message to a string, str(e) included, which may be empty.
TradeResults ==
    { [success |-> TRUE, error_message |-> NoneVal],
      [success |-> FALSE, error_message |-> "Transaction reverted"],
      [success |-> FALSE, error_message |-> ""] }

NoCalls == [get_quote |-> 0, prepare_transaction |-> 0, execute_trade |-> 0, upsert_position |-> 0]

\* The requests a caller can send. Only execute_trade reads side and market
\* itself; get_quote and prepare_trade pass them to the adapter unread.
Requests ==
    [op : {"execute"}, platform : Platforms, side : {"buy", "sell"}, market : Markets]
    \cup [op : {"quote", "prepare"}, platform : Platforms, side : {"buy"}, market : {"m1"}]

NoReq == [op |-> NoneVal, platform |-> NoneVal, side |-> NoneVal, market |-> NoneVal]

InitPipeline ==
    /\ pc = [r \in Reqs |-> "idle"]
    /\ req = [r \in Reqs |-> NoReq]
    /\ trades = <<>>
    /\ positions = [m \in Markets |-> None]
    /\ quoteOf = [r \in Reqs |-> None]
    /\ resultOf = [r \in Reqs |-> None]
    /\ posRead = [r \in Reqs |-> None]
    /\ calls = [r \in Reqs |-> NoCalls]
    /\ tradeOf = [r \in Reqs |-> 0]
    /\ pending = [r \in Reqs |-> None]
    /\ resp = [r \in Reqs |-> None]

\* The router hands request r to the handler of its endpoint.
Receive(r) ==
    /\ pc[r] = "idle"
    /\ \A q \in Reqs : q < r => pc[q] # "idle"
    /\ \E rq \in Requests :
        /\ req' = [req EXCEPT ![r] = rq]
        /\ pc' = [pc EXCEPT ![r] = rq.op]
    /\ UNCHANGED <<trades, positions, quoteOf, resultOf, posRead, calls, tradeOf, pending, resp, notPipeline>>

\* raise HTTPException(status_code, detail) / return a response model.
HTTPException(code, detail) == [code |-> code, detail |-> detail]

PlatformNotFound(r) == HTTPException(404, "Platform not found")

\* One more call by request r of the adapter or ledger operation `name`.
Called(r, name) == [calls EXCEPT ![r][name] = @ + 1]

\* trade.status = s; await db.commit() on the Trade object request r holds.
CommitStatus(r, s) == [trades EXCEPT ![tradeOf[r]].status = s]

\* ---- POST /quote

\* get_quote: registry lookup, then the adapter's get_quote.
QuoteCall(r) ==
    /\ pc[r] = "quote"
    /\ IF RegistryGet(req[r].platform) = NoneVal
       THEN /\ pending' = [pending EXCEPT ![r] = PlatformNotFound(r)]
            /\ pc' = [pc EXCEPT ![r] = "respond"]
            /\ UNCHANGED <<calls, quoteOf>>
       ELSE /\ calls' = Called(r, "get_quote")
            /\ \E q \in Quotes \cup {Raised} : quoteOf' = [quoteOf EXCEPT ![r] = q]
            /\ pc' = [pc EXCEPT ![r] = "q_result"]
            /\ UNCHANGED pending
    /\ UNCHANGED <<req, trades, positions, resultOf, posRead, tradeOf, resp, notPipeline>>

\* Mutant: get_quote records the quote it hands out as a trade row.
QuoteResultRecorded(r) ==
    /\ pc[r] = "q_result"
    /\ pending' = [pending EXCEPT ![r] =
            IF quoteOf[r] = Raised THEN HTTPException(400, "quote error")
            ELSE [code |-> 200, detail |-> "QuoteResponse"]]
    /\ trades' = IF quoteOf[r] = Raised THEN trades
                 ELSE Append(trades, [req |-> r, status |-> "pending", mode |-> "prepare",
                                      price |-> <<quoteOf[r].price_per_token>>])
    /\ pc' = [pc EXCEPT ![r] = "respond"]
    /\ UNCHANGED <<req, positions, quoteOf, resultOf, posRead, calls, tradeOf, resp, notPipeline>>

\* get_quote: the except branch, or the QuoteResponse with the fee.
QuoteResult(r) ==
    /\ pc[r] = "q_result"
    /\ pending' = [pending EXCEPT ![r] =
            IF quoteOf[r] = Raised THEN HTTPException(400, "quote error")
            ELSE [code |-> 200, detail |-> "QuoteResponse"]]
    /\ pc' = [pc EXCEPT ![r] = "respond"]
    /\ UNCHANGED <<req, trades, positions, quoteOf, resultOf, posRead, calls, tradeOf, resp, notPipeline>>

\* ---- POST /prepare

\* prepare_trade: registry lookup, then the adapter's prepare_transaction.
PrepareCall(r) ==
    /\ pc[r] = "prepare"
    /\ IF RegistryGet(req[r].platform) = NoneVal
       THEN /\ pending' = [pending EXCEPT ![r] = PlatformNotFound(r)]
            /\ pc' = [pc EXCEPT ![r] = "respond"]
            /\ UNCHANGED <<calls, quoteOf>>
       ELSE /\ calls' = Called(r, "prepare_transaction")
            /\ \E q \in Quotes \cup {Raised} : quoteOf' = [quoteOf EXCEPT ![r] = q]
            /\ pc' = [pc EXCEPT ![r] = "p_result"]
            /\ UNCHANGED pending
    /\ UNCHANGED <<req, trades, positions, resultOf, posRead, tradeOf, resp, notPipeline>>

\* Mutant: the PrepareResponse is built whether or not the commit went through.
PreparePersistUnchecked(r) ==
    /\ pc[r] = "p_result"
    /\ IF quoteOf[r] = Raised
       THEN /\ pending' = [pending EXCEPT ![r] = HTTPException(400, "prepare error")]
            /\ UNCHANGED <<trades, tradeOf>>
       ELSE /\ \E committed \in BOOLEAN :
                  IF committed
                  THEN /\ trades' = Append(trades, [req |-> r, status |-> "prepared",
                                                    mode |-> "prepare",
                                                    price |-> <<quoteOf[r].price_per_token>>])
                       /\ tradeOf' = [tradeOf EXCEPT ![r] = Len(trades) + 1]
                  ELSE UNCHANGED <<trades, tradeOf>>
            /\ pending' = [pending EXCEPT ![r] = [code |-> 200, detail |-> "PrepareResponse"]]
    /\ pc' = [pc EXCEPT ![r] = "respond"]
    /\ UNCHANGED <<req, positions, quoteOf, resultOf, posRead, calls, resp, notPipeline>>

\* prepare_trade: the except branch; or the row recorded as prepared, its commit,
\* and the PrepareResponse built; or the commit raising, which leaves the
\* handler as a 500 with nothing persisted.
PreparePersist(r) ==
    /\ pc[r] = "p_result"
    /\ IF quoteOf[r] = Raised
       THEN /\ pending' = [pending EXCEPT ![r] = HTTPException(400, "prepare error")]
            /\ UNCHANGED <<trades, tradeOf>>
       ELSE \E committed \in BOOLEAN :
               IF committed
               THEN /\ trades' = Append(trades, [req |-> r, status |-> "prepared",
                                                 mode |-> "prepare",
                                                 price |-> <<quoteOf[r].price_per_token>>])
                    /\ tradeOf' = [tradeOf EXCEPT ![r] = Len(trades) + 1]
                    /\ pending' = [pending EXCEPT ![r] =
                                       [code |-> 200, detail |-> "PrepareResponse"]]
               ELSE /\ pending' = [pending EXCEPT ![r] =
                                       HTTPException(500, "Internal Server Error")]
                    /\ UNCHANGED <<trades, tradeOf>>
    /\ pc' = [pc EXCEPT ![r] = "respond"]
    /\ UNCHANGED <<req, positions, quoteOf, resultOf, posRead, calls, resp, notPipeline>>

\* ---- POST /execute

\* Mutant: the quote is fetched first and the row is not committed before it.
ExecutePersistDeferred(r) ==
    /\ pc[r] = "execute"
    /\ pc' = [pc EXCEPT ![r] = "e_quote"]
    /\ UNCHANGED <<req, trades, tradeOf, pending, positions, quoteOf, resultOf, posRead, calls, resp, notPipeline>>

\* execute_trade: registry lookup, then the Trade row added and committed.
ExecutePersist(r) ==
    /\ pc[r] = "execute"
    /\ IF RegistryGet(req[r].platform) = NoneVal
       THEN /\ pending' = [pending EXCEPT ![r] = PlatformNotFound(r)]
            /\ pc' = [pc EXCEPT ![r] = "respond"]
            /\ UNCHANGED <<trades, tradeOf>>
       ELSE /\ trades' = Append(trades, [req |-> r, status |-> "submitted", mode |-> "execute",
                                         price |-> Null])
            /\ tradeOf' = [tradeOf EXCEPT ![r] = Len(trades) + 1]
            /\ pc' = [pc EXCEPT ![r] = "e_quote"]
            /\ UNCHANGED pending
    /\ UNCHANGED <<req, positions, quoteOf, resultOf, posRead, calls, resp, notPipeline>>

\* execute_trade: the adapter's get_quote, which returns a Quote or raises.
ExecuteQuote(r) ==
    /\ pc[r] = "e_quote"
    /\ calls' = Called(r, "get_quote")
    /\ \E q \in Quotes \cup {Raised} :
        /\ quoteOf' = [quoteOf EXCEPT ![r] = q]
        /\ pc' = [pc EXCEPT ![r] = IF q = Raised THEN "e_quote_failed" ELSE "e_key"]
    /\ UNCHANGED <<req, trades, positions, resultOf, posRead, tradeOf, pending, resp, notPipeline>>

\* Mutant: the except branch raises without recording the failure.
ExecuteQuoteFailedUnrecorded(r) ==
    /\ pc[r] = "e_quote_failed"
    /\ pending' = [pending EXCEPT ![r] = HTTPException(400, "quote error")]
    /\ pc' = [pc EXCEPT ![r] = "respond"]
    /\ UNCHANGED <<req, trades, positions, quoteOf, resultOf, posRead, calls, tradeOf, resp, notPipeline>>

\* execute_trade: except branch of the quote step.
ExecuteQuoteFailed(r) ==
    /\ pc[r] = "e_quote_failed"
    /\ trades' = CommitStatus(r, "failed")
    /\ pending' = [pending EXCEPT ![r] = HTTPException(400, "quote error")]
    /\ pc' = [pc EXCEPT ![r] = "respond"]
    /\ UNCHANGED <<req, positions, quoteOf, resultOf, posRead, calls, tradeOf, resp, notPipeline>>

\* Mutant: the except branch records the failure and does not raise, so the
\* trade is executed all the same.
ExecuteKeyNoRaise(r) ==
    /\ pc[r] = "e_key"
    /\ \E valid \in BOOLEAN :
        IF valid
        THEN UNCHANGED trades
        ELSE trades' = CommitStatus(r, "failed")
    /\ pc' = [pc EXCEPT ![r] = "e_trade"]
    /\ UNCHANGED <<req, pending, positions, quoteOf, resultOf, posRead, calls, tradeOf, resp, notPipeline>>

\* execute_trade: the private key converted to the platform's key type.
ExecuteKey(r) ==
    /\ pc[r] = "e_key"
    /\ \E valid \in BOOLEAN :
        IF valid
        THEN /\ pc' = [pc EXCEPT ![r] = "e_trade"]
             /\ UNCHANGED <<trades, pending>>
        ELSE /\ trades' = CommitStatus(r, "failed")
             /\ pending' = [pending EXCEPT ![r] = HTTPException(400, "Invalid private key")]
             /\ pc' = [pc EXCEPT ![r] = "respond"]
    /\ UNCHANGED <<req, positions, quoteOf, resultOf, posRead, calls, tradeOf, resp, notPipeline>>

\* execute_trade: the adapter's execute_trade, which returns a TradeResult.
ExecuteTrade(r) ==
    /\ pc[r] = "e_trade"
    /\ calls' = Called(r, "execute_trade")
    /\ \E res \in TradeResults : resultOf' = [resultOf EXCEPT ![r] = res]
    /\ pc' = [pc EXCEPT ![r] = "e_update"]
    /\ UNCHANGED <<req, trades, positions, quoteOf, posRead, tradeOf, pending, resp, notPipeline>>

\* Mutant: every returned result is recorded as confirmed.
ResultStatusConfirmed(res) == "confirmed"

\* The status the row gets from the TradeResult.
ResultStatus(res) == IF res.success THEN "confirmed" ELSE "failed"

\* Mutant: the ledger is called for every successful execution, sells included.
ExecuteUpdateAnySide(r) ==
    /\ pc[r] = "e_update"
    /\ trades' = [trades EXCEPT ![tradeOf[r]] =
            [@ EXCEPT !.status = ResultStatus(resultOf[r]),
                      !.price = <<quoteOf[r].price_per_token>>]]
    /\ pc' = [pc EXCEPT ![r] = IF resultOf[r].success THEN "e_upsert" ELSE "e_finish"]
    /\ UNCHANGED <<req, positions, quoteOf, resultOf, posRead, calls, tradeOf, pending, resp, notPipeline>>

\* execute_trade: the trade record updated from the result.
ExecuteUpdate(r) ==
    /\ pc[r] = "e_update"
    /\ trades' = [trades EXCEPT ![tradeOf[r]] =
            [@ EXCEPT !.status = ResultStatus(resultOf[r]),
                      !.price = <<quoteOf[r].price_per_token>>]]
    /\ pc' = [pc EXCEPT ![r] =
            IF resultOf[r].success /\ req[r].side = "buy" THEN "e_upsert" ELSE "e_finish"]
    /\ UNCHANGED <<req, positions, quoteOf, resultOf, posRead, calls, tradeOf, pending, resp, notPipeline>>

\* upsert_position: the select of the position row of the key.
UpsertSelect(r) ==
    /\ pc[r] = "e_upsert"
    /\ calls' = Called(r, "upsert_position")
    /\ posRead' = [posRead EXCEPT ![r] = positions[req[r].market]]
    /\ pc' = [pc EXCEPT ![r] = "e_upsert_commit"]
    /\ UNCHANGED <<req, trades, positions, quoteOf, resultOf, tradeOf, pending, resp, notPipeline>>

\* Mutant: the average of the old average and the new price, not weighted by
\* the amounts.
UpsertRowUnweighted(position, token_amount, entry_price, current_price) ==
    IF position # None
    THEN LET old_amount == position.token_amount
             old_avg == position.avg_entry_price
             new_total == old_amount + token_amount
             r1 == IF new_total > 0
                   THEN [position EXCEPT
                            !.avg_entry_price =
                                Float(Frac(old_avg.n + entry_price * old_avg.d, 2 * old_avg.d)),
                            !.token_amount = new_total]
                   ELSE [position EXCEPT !.token_amount = 0, !.status = "closed"]
         IN  IF current_price # Null THEN [r1 EXCEPT !.current_price = current_price] ELSE r1
    ELSE [token_amount |-> token_amount,
          avg_entry_price |-> Float(Frac(entry_price, 1)),
          current_price |-> IF current_price # Null /\ current_price # <<0>>
                            THEN current_price ELSE Null,
          status |-> "open"]

\* Mutant: the price of the latest buy replaces the average.
UpsertRowLastPrice(position, token_amount, entry_price, current_price) ==
    IF position # None
    THEN LET new_total == position.token_amount + token_amount
             r1 == IF new_total > 0
                   THEN [position EXCEPT
                            !.avg_entry_price = Float(Frac(entry_price, 1)),
                            !.token_amount = new_total]
                   ELSE [position EXCEPT !.token_amount = 0, !.status = "closed"]
         IN  IF current_price # Null THEN [r1 EXCEPT !.current_price = current_price] ELSE r1
    ELSE [token_amount |-> token_amount,
          avg_entry_price |-> Float(Frac(entry_price, 1)),
          current_price |-> IF current_price # Null /\ current_price # <<0>>
                            THEN current_price ELSE Null,
          status |-> "open"]

\* upsert_position: the row it stores, from the row it selected. The amount is
\* kept as the string of a Decimal, exactly; the prices are kept as floats.
UpsertRow(position, token_amount, entry_price, current_price) ==
    IF position # None
    THEN LET old_amount == position.token_amount
             old_avg == position.avg_entry_price
             new_total == old_amount + token_amount
             r1 == IF new_total > 0
                   THEN [position EXCEPT
                            !.avg_entry_price =
                                Float(Frac(old_avg.n * old_amount + entry_price * token_amount * old_avg.d,
                                           old_avg.d * new_total)),
                            !.token_amount = new_total]
                   ELSE [position EXCEPT !.token_amount = 0, !.status = "closed"]
         IN  IF current_price # Null THEN [r1 EXCEPT !.current_price = current_price] ELSE r1
    ELSE [token_amount |-> token_amount,
          avg_entry_price |-> Float(Frac(entry_price, 1)),
          current_price |-> IF current_price # Null /\ current_price # <<0>>
                            THEN current_price ELSE Null,
          status |-> "open"]

\* db.commit() of a session that loaded the row `loaded` and left it as `mine`:
\* the INSERT of a new row, or the UPDATE of the columns the session changed,
\* on the row as committed by then.
Flush(stored, loaded, mine) ==
    IF loaded = None THEN mine
    ELSE [col \in DOMAIN mine |-> IF mine[col] # loaded[col] THEN mine[col] ELSE stored[col]]

\* upsert_position: the commit. A row inserted for a key that another session
\* inserted meanwhile violates the unique constraint and the commit raises.
UpsertCommit(r) ==
    /\ pc[r] = "e_upsert_commit"
    /\ IF posRead[r] = None /\ positions[req[r].market] # None
       THEN /\ pending' = [pending EXCEPT ![r] = HTTPException(500, "Internal Server Error")]
            /\ pc' = [pc EXCEPT ![r] = "respond"]
            /\ UNCHANGED positions
       ELSE /\ positions' = [positions EXCEPT ![req[r].market] =
                    Flush(@, posRead[r],
                          UpsertRow(posRead[r], quoteOf[r].expected_output,
                                    quoteOf[r].price_per_token, <<quoteOf[r].price_per_token>>))]
            /\ pc' = [pc EXCEPT ![r] = "e_finish"]
            /\ UNCHANGED pending
    /\ UNCHANGED <<req, trades, quoteOf, resultOf, posRead, calls, tradeOf, resp, notPipeline>>

\* Mutant: the adapter's message is dropped.
FailureDetailGeneric(res) == "Trade execution failed"

\* result.error_message or "Trade execution failed"
FailureDetail(res) ==
    IF res.error_message # NoneVal /\ res.error_message # ""
    THEN res.error_message ELSE "Trade execution failed"

\* execute_trade: the failure raised, or the ExecuteResponse returned.
ExecuteFinish(r) ==
    /\ pc[r] = "e_finish"
    /\ pending' = [pending EXCEPT ![r] =
            IF ~resultOf[r].success
            THEN HTTPException(500, FailureDetail(resultOf[r]))
            ELSE [code |-> 200, detail |-> "confirmed"]]
    /\ pc' = [pc EXCEPT ![r] = "respond"]
    /\ UNCHANGED <<req, trades, positions, quoteOf, resultOf, posRead, calls, tradeOf, resp, notPipeline>>

\* The response or the HTTPException reaches the caller.
Respond(r) ==
    /\ pc[r] = "respond"
    /\ resp' = [resp EXCEPT ![r] = pending[r]]
    /\ pc' = [pc EXCEPT ![r] = "done"]
    /\ quoteOf' = [quoteOf EXCEPT ![r] = None]
    /\ posRead' = [posRead EXCEPT ![r] = None]
    /\ pending' = [pending EXCEPT ![r] = None]
    /\ UNCHANGED <<req, trades, positions, resultOf, calls, tradeOf, notPipeline>>

\* One step of the handler of some request.
PipelineStep ==
    \E r \in Reqs :
        \/ Receive(r)
        \/ QuoteCall(r)
        \/ QuoteResult(r)
        \/ PrepareCall(r)
        \/ PreparePersist(r)
        \/ ExecutePersist(r)
        \/ ExecuteQuote(r)
        \/ ExecuteQuoteFailed(r)
        \/ ExecuteKey(r)
        \/ ExecuteTrade(r)
        \/ ExecuteUpdate(r)
        \/ UpsertSelect(r)
        \/ UpsertCommit(r)
        \/ ExecuteFinish(r)
        \/ Respond(r)

\* --------------------------------------------------------- rate limiter

\* Largest rate limit (tokens per period) an API key carries in the model.
MaxRate == 2

\* The clock ticks this many times per refill period: a tick is period / TicksPerPeriod.
TicksPerPeriod == 2

\* The clock stops at this tick.
MaxTime == 3

\* Number of dependency calls in one behaviour.
MaxCalls == MaxRate + 2

\* TokenBucket.__init__: period = 60.0 seconds.
PeriodSeconds == 60

KeyIds == {"k1", "k2"}

\* f"{key_id}:{bucket_type}"
CacheKey(key_id, bucket_type) == <<key_id, bucket_type>>

CacheKeys == KeyIds \X {"rpm", "tpm"}

Min(a, b) == IF a <= b THEN a ELSE b

\* TokenBucket(rate): tokens are kept in units of 1 / TicksPerPeriod of a token,
\* so that the refill of one tick, rate / TicksPerPeriod tokens, is the integer rate.
TokenBucket(rate) == [rate |-> rate, tokens |-> rate * TicksPerPeriod, last_refill |-> now]

\* Mutant: the refill is not capped at the rate.
RefillUncapped(b, t) ==
    [b EXCEPT !.tokens = b.tokens + (t - b.last_refill) * b.rate, !.last_refill = t]

\* consume(): the refill, tokens = min(rate, tokens + elapsed * (rate / period)),
\* and last_refill = now.
Refill(b, t) ==
    [b EXCEPT !.tokens = Min(b.rate * TicksPerPeriod, b.tokens + (t - b.last_refill) * b.rate),
              !.last_refill = t]

\* Mutant: a bucket holding exactly one token denies.
ConsumeAllowedStrict(b, t) == Refill(b, t).tokens > TicksPerPeriod

\* consume(): the value returned, tokens >= 1 after the refill.
ConsumeAllowed(b, t) == Refill(b, t).tokens >= TicksPerPeriod

\* consume(): the bucket it leaves.
Consume(b, t) ==
    IF ConsumeAllowed(b, t)
    THEN [Refill(b, t) EXCEPT !.tokens = @ - TicksPerPeriod]
    ELSE Refill(b, t)

\* remaining: int(tokens)
Remaining(b) == b.tokens \div TicksPerPeriod

\* reset_in, in seconds, as a fraction: 0.0 if tokens >= 1, else
\* (1 - tokens) / (rate / period).
ResetIn(b) ==
    IF b.tokens >= TicksPerPeriod
    THEN Frac(0, 1)
    ELSE Frac((TicksPerPeriod - b.tokens) * PeriodSeconds, TicksPerPeriod * b.rate)

\* int(x) of a non-negative fraction.
IntOf(f) == f.n \div f.d

FracLess(f, g) == f.n * g.d < g.n * f.d

\* get_bucket: the store after the lookup, with the bucket created if absent.
GetBucket(store, key_id, bucket_type, rate) ==
    IF store[CacheKey(key_id, bucket_type)] = None
    THEN [store EXCEPT ![CacheKey(key_id, bucket_type)] = TokenBucket(rate)]
    ELSE store

\* The 429 of require_request_limit.
RateLimitExceeded(k, bucket) ==
    [status |-> 429, detail |-> "Rate limit exceeded",
     limit |-> apiKeys[k].rate_limit_rpm,
     remaining |-> Remaining(bucket), reset |-> IntOf(ResetIn(bucket))]

\* The 429 of require_trade_limit when the request bucket denies.
RequestLimitExceeded(k, req_bucket) ==
    [status |-> 429, detail |-> "Request rate limit exceeded",
     limit |-> apiKeys[k].rate_limit_rpm,
     remaining |-> Remaining(req_bucket), reset |-> IntOf(ResetIn(req_bucket))]

\* Mutant: the trade-class denial is reported as the request-class one.
TradeLimitExceededAsRequest(k, trade_bucket) == RequestLimitExceeded(k, trade_bucket)

\* The 429 of require_trade_limit when the trade bucket denies.
TradeLimitExceeded(k, trade_bucket) ==
    [status |-> 429, detail |-> "Trade rate limit exceeded",
     limit |-> apiKeys[k].rate_limit_tpm,
     remaining |-> Remaining(trade_bucket), reset |-> IntOf(ResetIn(trade_bucket))]

\* The dependency returned the api key: the endpoint runs.
Passed == [status |-> 200, detail |-> "ok", limit |-> 0, remaining |-> 0, reset |-> 0]

\* The log of the consume() calls made on a bucket while the clock still shows
\* the instant the bucket was created at.
Logged(log, ck, allowed) ==
    IF buckets[ck] = None \/ Len(log[ck]) > 0
    THEN [log EXCEPT ![ck] = Append(@, allowed)]
    ELSE log

Checked(fn, k, outcome) == [n |-> nCalls + 1, fn |-> fn, key |-> k] @@ outcome

\* require_request_limit
RequireRequestLimit(k) ==
    /\ nCalls < MaxCalls
    /\ LET store == GetBucket(buckets, k, "rpm", apiKeys[k].rate_limit_rpm)
           ck == CacheKey(k, "rpm")
           allowed == ConsumeAllowed(store[ck], now)
           bucket == Consume(store[ck], now)
       IN  /\ buckets' = [store EXCEPT ![ck] = bucket]
           /\ freshLog' = Logged(freshLog, ck, allowed)
           /\ lastCheck' = Checked("require_request_limit", k,
                                   IF allowed THEN Passed ELSE RateLimitExceeded(k, bucket))
    /\ nCalls' = nCalls + 1
    /\ UNCHANGED <<now, apiKeys, notLimiter>>

\* Mutant: a trade-class denial gives the request-class token back.
RequireTradeLimitRefunding(k) ==
    /\ nCalls < MaxCalls
    /\ LET store1 == GetBucket(buckets, k, "rpm", apiKeys[k].rate_limit_rpm)
           rk == CacheKey(k, "rpm")
           req_allowed == ConsumeAllowed(store1[rk], now)
           req_bucket == Consume(store1[rk], now)
           store2 == [store1 EXCEPT ![rk] = req_bucket]
           store3 == GetBucket(store2, k, "tpm", apiKeys[k].rate_limit_tpm)
           tk == CacheKey(k, "tpm")
           trade_allowed == ConsumeAllowed(store3[tk], now)
           trade_bucket == Consume(store3[tk], now)
       IN  IF ~req_allowed
           THEN /\ buckets' = store2
                /\ freshLog' = Logged(freshLog, rk, FALSE)
                /\ lastCheck' = Checked("require_trade_limit", k, RequestLimitExceeded(k, req_bucket))
           ELSE /\ buckets' = [store3 EXCEPT ![tk] = trade_bucket,
                                             ![rk] = IF trade_allowed THEN @
                                                     ELSE Refill(store1[rk], now)]
                /\ freshLog' = [Logged(freshLog, rk, TRUE) EXCEPT ![tk] =
                                    Logged(freshLog, tk, trade_allowed)[tk]]
                /\ lastCheck' = Checked("require_trade_limit", k,
                                        IF trade_allowed THEN Passed
                                        ELSE TradeLimitExceeded(k, trade_bucket))
    /\ nCalls' = nCalls + 1
    /\ UNCHANGED <<now, apiKeys, notLimiter>>

\* require_trade_limit
RequireTradeLimit(k) ==
    /\ nCalls < MaxCalls
    /\ LET store1 == GetBucket(buckets, k, "rpm", apiKeys[k].rate_limit_rpm)
           rk == CacheKey(k, "rpm")
           req_allowed == ConsumeAllowed(store1[rk], now)
           req_bucket == Consume(store1[rk], now)
           store2 == [store1 EXCEPT ![rk] = req_bucket]
           store3 == GetBucket(store2, k, "tpm", apiKeys[k].rate_limit_tpm)
           tk == CacheKey(k, "tpm")
           trade_allowed == ConsumeAllowed(store3[tk], now)
           trade_bucket == Consume(store3[tk], now)
       IN  IF ~req_allowed
           THEN /\ buckets' = store2
                /\ freshLog' = Logged(freshLog, rk, FALSE)
                /\ lastCheck' = Checked("require_trade_limit", k, RequestLimitExceeded(k, req_bucket))
           ELSE /\ buckets' = [store3 EXCEPT ![tk] = trade_bucket]
                /\ freshLog' = [Logged(freshLog, rk, TRUE) EXCEPT ![tk] =
                                    Logged(freshLog, tk, trade_allowed)[tk]]
                /\ lastCheck' = Checked("require_trade_limit", k,
                                        IF trade_allowed THEN Passed
                                        ELSE TradeLimitExceeded(k, trade_bucket))
    /\ nCalls' = nCalls + 1
    /\ UNCHANGED <<now, apiKeys, notLimiter>>

\* time.monotonic() moves on between two calls. The logs of the calls made at
\* a bucket's creation instant are closed.
Tick ==
    /\ now < MaxTime
    /\ now' = now + 1
    /\ freshLog' = [ck \in CacheKeys |-> <<>>]
    /\ UNCHANGED <<apiKeys, buckets, lastCheck, nCalls, notLimiter>>

LimiterStep ==
    \/ \E k \in KeyIds : RequireRequestLimit(k)
    \/ \E k \in KeyIds : RequireTradeLimit(k)
    \/ Tick

\* The rate_limit_rpm and rate_limit_tpm columns of the APIKey row of key k
\* are rewritten between two requests (the key moves to another tier); every
\* request loads the row anew.
UpdateLimits(k) ==
    /\ \E limits \in [rate_limit_rpm : 1..MaxRate, rate_limit_tpm : 1..MaxRate] :
        /\ limits # apiKeys[k]
        /\ apiKeys' = [apiKeys EXCEPT ![k] = limits]
    /\ UNCHANGED <<now, buckets, lastCheck, nCalls, freshLog, notLimiter>>

ReconfigStep ==
    \/ \E k \in KeyIds : RequireRequestLimit(k)
    \/ \E k \in KeyIds : RequireTradeLimit(k)
    \/ Tick
    \/ UpdateLimits("k1")

NoCheck == [n |-> 0, fn |-> NoneVal, key |-> NoneVal] @@ Passed

\* The store is empty; the keys carry the limits of their tier.
InitLimiter ==
    /\ now = 0
    /\ apiKeys \in [KeyIds -> [rate_limit_rpm : 1..MaxRate, rate_limit_tpm : 1..MaxRate]]
    /\ apiKeys["k2"] = [rate_limit_rpm |-> 1, rate_limit_tpm |-> 1]
    /\ buckets = [ck \in CacheKeys |-> None]
    /\ lastCheck = NoCheck
    /\ nCalls = 0
    /\ freshLog = [ck \in CacheKeys |-> <<>>]

\* The limiter at rest, while another component is looked at.
IdleLimiter ==
    /\ now = 0
    /\ apiKeys = [k \in KeyIds |-> [rate_limit_rpm |-> 1, rate_limit_tpm |-> 1]]
    /\ buckets = [ck \in CacheKeys |-> None]
    /\ lastCheck = NoCheck
    /\ nCalls = 0
    /\ freshLog = [ck \in CacheKeys |-> <<>>]

\* ------------------------------------------- consume on worker threads

\* Number of worker threads inside consume() on the same bucket at once.
MaxThreads == 2

Threads == 1..MaxThreads

\* consume(): time.monotonic() read, the refilled token count computed (the
\* call of min), not yet stored.
ConsumeCompute(t) ==
    /\ tpc[t] = "call"
    /\ ttmp' = [ttmp EXCEPT ![t] = Refill(tbucket, now).tokens]
    /\ tpc' = [tpc EXCEPT ![t] = "store"]
    /\ UNCHANGED <<tbucket, tokens0, tret, notThreads>>

\* consume(): self.tokens = ...; self.last_refill = now
ConsumeStore(t) ==
    /\ tpc[t] = "store"
    /\ tbucket' = [tbucket EXCEPT !.tokens = ttmp[t], !.last_refill = now]
    /\ tpc' = [tpc EXCEPT ![t] = "test"]
    /\ UNCHANGED <<tokens0, ttmp, tret, notThreads>>

\* consume(): if self.tokens >= 1, else return False
ConsumeTest(t) ==
    /\ tpc[t] = "test"
    /\ IF tbucket.tokens >= TicksPerPeriod
       THEN /\ tpc' = [tpc EXCEPT ![t] = "load"]
            /\ UNCHANGED tret
       ELSE /\ tpc' = [tpc EXCEPT ![t] = "ret"]
            /\ tret' = [tret EXCEPT ![t] = "False"]
    /\ UNCHANGED <<tbucket, tokens0, ttmp, notThreads>>

\* consume(): self.tokens -= 1, the load of self.tokens and the subtraction
ConsumeLoad(t) ==
    /\ tpc[t] = "load"
    /\ ttmp' = [ttmp EXCEPT ![t] = tbucket.tokens - TicksPerPeriod]
    /\ tpc' = [tpc EXCEPT ![t] = "dec"]
    /\ UNCHANGED <<tbucket, tokens0, tret, notThreads>>

\* consume(): self.tokens -= 1, the store; return True
ConsumeDec(t) ==
    /\ tpc[t] = "dec"
    /\ tbucket' = [tbucket EXCEPT !.tokens = ttmp[t]]
    /\ tret' = [tret EXCEPT ![t] = "True"]
    /\ tpc' = [tpc EXCEPT ![t] = "ret"]
    /\ UNCHANGED <<tokens0, ttmp, notThreads>>

ThreadStep ==
    \E t \in Threads :
        \/ ConsumeCompute(t)
        \/ ConsumeStore(t)
        \/ ConsumeTest(t)
        \/ ConsumeLoad(t)
        \/ ConsumeDec(t)

\* A bucket of some rate holding some token count, refilled at this instant,
\* and every thread about to call consume() on it.
InitThreads ==
    /\ \E rate \in 1..MaxRate :
        \E tk \in 0..(rate * TicksPerPeriod) :
           /\ tbucket = [rate |-> rate, tokens |-> tk, last_refill |-> 0]
           /\ tokens0 = tk
    /\ tpc = [t \in Threads |-> "call"]
    /\ ttmp = [t \in Threads |-> 0]
    /\ tret = [t \in Threads |-> NoneVal]

\* No thread is anywhere near the limiter.
IdleThreads ==
    /\ tbucket = [rate |-> 1, tokens |-> 0, last_refill |-> 0]
    /\ tokens0 = 0
    /\ tpc = [t \in Threads |-> "ret"]
    /\ ttmp = [t \in Threads |-> 0]
    /\ tret = [t \in Threads |-> NoneVal]

\* ------------------------------------------------------ position ledger

\* Largest token amount of one upsert, bought or sold.
MaxAmount == 2

\* Largest price per token.
MaxPrice == 2

\* Number of upsert_position calls one caller makes in a row.
MaxUpserts == 2

Amounts == (0 - MaxAmount)..MaxAmount

Prices == 1..MaxPrice

\* The token_amount, entry_price and current_price of an upsert_position call:
\* no current price, or the entry price as execute_trade passes it.
UpsertArgs ==
    { a \in [token_amount : Amounts, entry_price : Prices,
             current_price : {Null} \cup {<<p>> : p \in Prices}] :
        a.current_price \in {Null, <<a.entry_price>>} }

NoArgs == [token_amount |-> 0, entry_price |-> 0, current_price |-> Null]

\* upsert_position on the row the select returned.
Apply(position, a) == UpsertRow(position, a.token_amount, a.entry_price, a.current_price)

\* The rows a key can have: none, the row a buy created, the row a sale of
\* everything closed.
StartRows ==
    {None}
    \cup {UpsertRow(None, n, p, Null) : n \in 1..MaxAmount, p \in Prices}
    \cup {UpsertRow(UpsertRow(None, n, p, Null), 0 - n, p, Null) : n \in 1..MaxAmount, p \in Prices}

\* upsert_position, from its select to its commit, with no other session in between.
Upsert(a) ==
    /\ Len(hist) < MaxUpserts
    /\ ledger' = Flush(ledger, ledger, Apply(ledger, a))
    /\ hist' = Append(hist, a)
    /\ UNCHANGED <<row0, notLedger>>

LedgerStep == \E a \in UpsertArgs : Upsert(a)

InitLedger ==
    /\ row0 \in StartRows
    /\ ledger = row0
    /\ hist = <<>>

\* No upsert is made.
IdleLedger ==
    /\ row0 = None
    /\ ledger = None
    /\ hist = <<>>

\* ------------------------------------------- upserts of several sessions

\* Number of database sessions inside upsert_position on the same key at once.
MaxSessions == 2

Sessions == 1..MaxSessions

\* The calls execute_trade makes: the expected output of a buy, at the price
\* of its quote.
BuyArgs == {a \in UpsertArgs : a.token_amount > 0 /\ a.current_price = <<a.entry_price>>}

\* upsert_position: the select of the row of the key.
SessionSelect(s) ==
    /\ spc[s] = "call"
    /\ \E a \in BuyArgs : sargs' = [sargs EXCEPT ![s] = a]
    /\ ssel' = [ssel EXCEPT ![s] = ledger]
    /\ spc' = [spc EXCEPT ![s] = "commit"]
    /\ UNCHANGED <<ledgerVars, notSessions>>

\* upsert_position: the row changed or added, and the commit. The INSERT of a
\* row for a key that has one by then violates uq_position_key.
SessionCommit(s) ==
    /\ spc[s] = "commit"
    /\ IF ssel[s] = None /\ ledger # None
       THEN /\ spc' = [spc EXCEPT ![s] = "IntegrityError"]
            /\ UNCHANGED <<ledger, hist>>
       ELSE /\ ledger' = Flush(ledger, ssel[s], Apply(ssel[s], sargs[s]))
            /\ hist' = Append(hist, sargs[s])
            /\ spc' = [spc EXCEPT ![s] = "returned"]
    /\ UNCHANGED <<row0, sargs, ssel, notSessions>>

SessionStep ==
    \E s \in Sessions :
        \/ SessionSelect(s)
        \/ SessionCommit(s)

\* Every session is about to call upsert_position.
InitSessions ==
    /\ spc = [s \in Sessions |-> "call"]
    /\ sargs = [s \in Sessions |-> NoArgs]
    /\ ssel = [s \in Sessions |-> None]

IdleSessions ==
    /\ spc = [s \in Sessions |-> "idle"]
    /\ sargs = [s \in Sessions |-> NoArgs]
    /\ ssel = [s \in Sessions |-> None]

\* ------------------------------------------------------------ live feed

\* Number of websockets that ever connect to /v1/feed/ws.
MaxSockets == 2

\* Number of broadcast rounds in one behaviour.
MaxRounds == 2

Sockets == 1..MaxSockets

\* The adapters PlatformRegistry holds.
Adapters == {"kalshi", "polymarket", "myriad", "opinion", "limitless"}

Range(seq) == {seq[i] : i \in DOMAIN seq}

\* feed_websocket: the key checked; the socket closed with 4001, or accepted
\* and added to _clients.
Connect(ws) ==
    /\ sock[ws] = "new"
    /\ \E authenticated \in BOOLEAN :
        IF authenticated
        THEN /\ sock' = [sock EXCEPT ![ws] = "open"]
             /\ clients' = clients \cup {ws}
        ELSE /\ sock' = [sock EXCEPT ![ws] = "rejected"]
             /\ UNCHANGED clients
    /\ UNCHANGED <<lpc, copy, todo, cur, dead, sends, rounds, life, cancelPending, cancelAt,
                   sentAfterCancel, closeCalls, notFeed>>

\* The peer of an accepted socket goes away; the handler, suspended in
\* receive_text, has not been resumed yet.
PeerLost(ws) ==
    /\ sock[ws] = "open"
    /\ sock' = [sock EXCEPT ![ws] = "lost"]
    /\ UNCHANGED <<clients, lpc, copy, todo, cur, dead, sends, rounds, life, cancelPending, cancelAt,
                   sentAfterCancel, closeCalls, notFeed>>

\* feed_websocket: receive_text raises, the finally block discards the socket.
Disconnect(ws) ==
    /\ sock[ws] \in {"open", "lost"}
    /\ sock' = [sock EXCEPT ![ws] = "closed"]
    /\ clients' = clients \ {ws}
    /\ UNCHANGED <<lpc, copy, todo, cur, dead, sends, rounds, life, cancelPending, cancelAt,
                   sentAfterCancel, closeCalls, notFeed>>

\* Mutant: the dead stay subscribed.
DiscardNothing(set, ws) == [set |-> set, raised |-> FALSE]

\* Mutant: set.remove, a KeyError for a socket that is not in the set.
Remove(set, ws) == [set |-> set \ {ws}, raised |-> ws \notin set]

\* set.discard(ws): the set without ws, and no error if ws is not in it.
Discard(set, ws) == [set |-> set \ {ws}, raised |-> FALSE]

\* for ws in dead: _clients.discard(ws)
RECURSIVE Prune(_, _)
Prune(set, deadlist) ==
    IF deadlist = <<>> THEN [set |-> set, raised |-> FALSE]
    ELSE LET d == Discard(set, Head(deadlist))
         IN  IF d.raised THEN d ELSE Prune(d.set, Tail(deadlist))

\* The for loop over the copy is through: the dead are pruned and the loop
\* sleeps again; an exception raised here is logged and the loop backs off.
RoundEnd(deadlist) ==
    LET pruned == Prune(clients, deadlist)
    IN  /\ clients' = pruned.set
        /\ lpc' = IF pruned.raised THEN "backoff" ELSE "sleep"
        /\ rounds' = IF pruned.raised THEN rounds ELSE rounds + 1

\* await ws.send_text(payload) called on the next socket of the copy.
StartSend(ws, rest) ==
    /\ cur' = ws
    /\ todo' = rest
    /\ lpc' = "send"
    /\ sentAfterCancel' = (sentAfterCancel \/ life # "serving")

\* broadcast_loop: asyncio.sleep(interval) returns; with no subscriber the
\* loop sleeps again, else it awaits sync_all_markets.
LoopWake ==
    /\ lpc = "sleep"
    /\ ~cancelPending
    /\ rounds < MaxRounds
    /\ lpc' = IF clients = {} THEN "sleep" ELSE "snapshot"
    /\ UNCHANGED <<clients, sock, copy, todo, cur, dead, sends, rounds, life, cancelPending, cancelAt,
                   sentAfterCancel, closeCalls, notFeed>>

\* broadcast_loop: sync_all_markets returns; building the payload raises, or
\* the payload is built, _clients copied and the first send_text called.
LoopSnapshot ==
    /\ lpc = "snapshot"
    /\ ~cancelPending
    /\ \E raised \in BOOLEAN :
        IF raised
        THEN /\ lpc' = "backoff"
             /\ UNCHANGED <<clients, copy, todo, cur, dead, sends, rounds, sentAfterCancel>>
        ELSE /\ copy' = clients
             /\ dead' = <<>>
             /\ sends' = <<>>
             /\ IF clients = {}
                THEN /\ todo' = {}
                     /\ cur' = 0
                     /\ RoundEnd(<<>>)
                     /\ UNCHANGED sentAfterCancel
                ELSE /\ \E ws \in clients : StartSend(ws, clients \ {ws})
                     /\ UNCHANGED <<clients, rounds>>
    /\ UNCHANGED <<sock, life, cancelPending, cancelAt, closeCalls, notFeed>>

\* How the send_text the loop is suspended in ends when the loop is resumed:
\* by the CancelledError of a cancellation, by the text sent, or by the
\* exception of a connection that is no longer there.
SendOutcomes(ws) ==
    IF cancelPending THEN {"CancelledError"}
    ELSE IF sock[ws] = "open" THEN {"sent"}
    ELSE IF sock[ws] = "lost" THEN {"sent", "Exception"}
    ELSE {"Exception"}

\* Mutant: the handler around send_text catches every exception.
InnerCatchesAll(exc) == TRUE

\* except Exception around send_text: CancelledError is a BaseException.
InnerCatches(exc) == exc = "Exception"

\* The suspension points inside the try block of the loop; the back-off sleep
\* is in its except Exception handler.
InTry(point) == point \in {"sleep", "snapshot", "send"}

\* broadcast_loop: send_text ends; the socket goes to the dead list if it
\* raised; the next send_text is called or the round ends. A CancelledError
\* passes to except asyncio.CancelledError, and the loop breaks.
LoopSent ==
    /\ lpc = "send"
    /\ \E out \in SendOutcomes(cur) :
        IF out # "sent" /\ ~InnerCatches(out)
        THEN /\ lpc' = "returned"
             /\ cancelAt' = "send"
             /\ cancelPending' = FALSE
             /\ UNCHANGED <<clients, copy, todo, cur, dead, sends, rounds, sentAfterCancel>>
        ELSE LET dead1 == IF out = "sent" THEN dead ELSE Append(dead, cur)
             IN  /\ dead' = dead1
                 /\ sends' = Append(sends, <<cur, out>>)
                 /\ cancelPending' = IF out = "CancelledError" THEN FALSE ELSE cancelPending
                 /\ UNCHANGED <<copy, cancelAt>>
                 /\ IF todo = {}
                    THEN /\ todo' = {}
                         /\ cur' = 0
                         /\ RoundEnd(dead1)
                         /\ UNCHANGED sentAfterCancel
                    ELSE /\ \E ws \in todo : StartSend(ws, todo \ {ws})
                         /\ UNCHANGED <<clients, rounds>>
    /\ UNCHANGED <<sock, life, closeCalls, notFeed>>

\* broadcast_loop: the asyncio.sleep(1) after a logged error returns.
LoopBackoff ==
    /\ lpc = "backoff"
    /\ ~cancelPending
    /\ lpc' = "sleep"
    /\ UNCHANGED <<clients, sock, copy, todo, cur, dead, sends, rounds, life, cancelPending, cancelAt,
                   sentAfterCancel, closeCalls, notFeed>>

\* broadcast_loop: the CancelledError is thrown into a sleep or into
\* sync_all_markets. Inside the try block the loop breaks and returns; in the
\* except Exception handler nothing catches it and it leaves broadcast_loop.
LoopCancelled ==
    /\ cancelPending
    /\ lpc \in {"sleep", "snapshot", "backoff"}
    /\ cancelAt' = lpc
    /\ lpc' = IF InTry(lpc) THEN "returned" ELSE "cancelled"
    /\ cancelPending' = FALSE
    /\ UNCHANGED <<clients, sock, copy, todo, cur, dead, sends, rounds, life, sentAfterCancel,
                   closeCalls, notFeed>>

LoopStep ==
    \/ LoopWake
    \/ LoopSnapshot
    \/ LoopSent
    \/ LoopBackoff
    \/ LoopCancelled

\* lifespan: the application shuts down, task.cancel() is called and the task awaited.
Shutdown ==
    /\ life = "serving"
    /\ life' = "awaiting"
    /\ cancelPending' = TRUE
    /\ UNCHANGED <<clients, sock, lpc, copy, todo, cur, dead, sends, rounds, cancelAt,
                   sentAfterCancel, closeCalls, notFeed>>

\* lifespan: await task returns, or raises the CancelledError that lifespan
\* passes over; close_all calls close() on every adapter.
LifespanClose ==
    /\ life = "awaiting"
    /\ lpc \in {"returned", "cancelled"}
    /\ life' = "closed"
    /\ closeCalls' = Adapters
    /\ UNCHANGED <<clients, sock, lpc, copy, todo, cur, dead, sends, rounds, cancelPending, cancelAt,
                   sentAfterCancel, notFeed>>

FeedStep ==
    \/ \E ws \in Sockets : Connect(ws)
    \/ \E ws \in Sockets : PeerLost(ws)
    \/ \E ws \in Sockets : Disconnect(ws)
    \/ LoopWake
    \/ LoopSnapshot
    \/ LoopSent
    \/ LoopBackoff
    \/ LoopCancelled
    \/ Shutdown
    \/ LifespanClose

\* The application serves, no socket has connected, the loop is in its first sleep.
InitFeed ==
    /\ clients = {}
    /\ sock = [ws \in Sockets |-> "new"]
    /\ lpc = "sleep"
    /\ copy = {}
    /\ todo = {}
    /\ cur = 0
    /\ dead = <<>>
    /\ sends = <<>>
    /\ rounds = 0
    /\ life = "serving"
    /\ cancelPending = FALSE
    /\ cancelAt = NoneVal
    /\ sentAfterCancel = FALSE
    /\ closeCalls = {}

\* The feed is not looked at.
IdleFeed ==
    /\ clients = {}
    /\ sock = [ws \in Sockets |-> "new"]
    /\ lpc = "returned"
    /\ copy = {}
    /\ todo = {}
    /\ cur = 0
    /\ dead = <<>>
    /\ sends = <<>>
    /\ rounds = 0
    /\ life = "closed"
    /\ cancelPending = FALSE
    /\ cancelAt = NoneVal
    /\ sentAfterCancel = FALSE
    /\ closeCalls = {}

\* ----------------------------------------------------------------- canary

\* The configured rotation interval (settings.feed_canary_interval_seconds), in seconds.
CanaryInterval == 2

\* The seconds the clocks advance to.
MaxCanaryTime == 3

\* The most markets the venues together return to one handler.
MaxFetched == 1

\* The largest limit and offset a caller passes.
MaxLimit == 2

MaxOffset == 1

\* Prices are kept in units of 1/PriceScale: round(price, 4).
PriceScale == 10000

\* int(time.time() * 1000)
MsPerSecond == 1000

\* Some of the prices round(random.uniform(0.01, 0.99), 4) draws.
CanaryPrices == {100, 9900}

FEED_PLATFORMS == <<"polymarket", "kalshi", "limitless", "opinion">>

\* The platform query parameter: absent, a feed venue, a venue not in the feed.
PlatformFilters == {NoneVal, "kalshi", "myriad"}

\* The number of markets the venues slugs[k], slugs[k+1], ... return.
RECURSIVE Total(_, _, _)
Total(fetched, slugs, k) ==
    IF k > Len(slugs) THEN 0 ELSE fetched[slugs[k]] + Total(fetched, slugs, k + 1)

\* What the venues asked return to one handler: the number of markets of each
\* venue that reach the output.  A venue that is not registered, raises, or whose
\* markets are all filtered out by category contributes none.
Fetches(slugs, limit) ==
    {fetched \in [Range(slugs) -> 0..Min(limit, MaxFetched)] :
        Total(fetched, slugs, 1) <= MaxFetched}

\* slugs = [platform] if platform else FEED_PLATFORMS
SlugsOf(platform) == IF platform /= NoneVal THEN <<platform>> ELSE FEED_PLATFORMS

\* should_rotate waiting for more than the interval.
ShouldRotateLate ==
    IF lastRotation = 0
    THEN TRUE
    ELSE (mono - lastRotation) > CanaryInterval

\* CanaryGenerator.should_rotate
ShouldRotate ==
    IF lastRotation = 0
    THEN TRUE
    ELSE (mono - lastRotation) >= CanaryInterval

\* The CanaryMarket generate() builds from the price it drew.
CanaryMarket(price) ==
    [market_id |-> "canary-staleness-check",
     platform |-> "canary",
     title |-> "Canary Staleness Check",
     outcomes |-> [yes |-> price, no |-> PriceScale - price],
     expected_price |-> price,
     injected_at |-> wall]

\* CanaryGenerator.generate
Generate ==
    \E price \in CanaryPrices :
        /\ current' = CanaryMarket(price)
        /\ lastRotation' = mono
        /\ draws' = draws + 1

\* The property CanaryGenerator.current, read by a handler.
Current ==
    /\ IF current = None \/ ShouldRotate
       THEN Generate
       ELSE UNCHANGED <<current, lastRotation, draws>>
    /\ got' = current'

\* The MarketOdds entry the handlers build from the canary.
CanaryOdds(canary) ==
    [market_id |-> canary.market_id,
     platform |-> canary.platform,
     title |-> canary.title,
     outcomes |-> canary.outcomes,
     volume_24h |-> Null,
     liquidity |-> Null,
     last_updated |-> canary.injected_at]

\* market_to_odds of the i-th market a venue returned.
MarketToOdds(slug, i) ==
    [market_id |-> "m" \o ToString(i),
     platform |-> slug,
     title |-> "market",
     outcomes |-> [yes |-> PriceScale \div 2, no |-> PriceScale \div 2],
     volume_24h |-> Null,
     liquidity |-> Null,
     last_updated |-> wall]

\* The loop over the venues: the entries of each venue in turn, appended.
RECURSIVE Collect(_, _, _)
Collect(slugs, fetched, k) ==
    IF k > Len(slugs)
    THEN <<>>
    ELSE [i \in 1..fetched[slugs[k]] |-> MarketToOdds(slugs[k], i)]
         \o Collect(slugs, fetched, k + 1)

\* Python's list[lo:hi]
Slice(list, lo, hi) == [i \in 1..(Min(hi, Len(list)) - lo) |-> list[lo + i]]

\* all_odds[offset : offset + limit] if not search else all_odds[:limit]
Paginate(all_odds, search, limit, offset) ==
    IF ~search
    THEN Slice(all_odds, offset, offset + limit)
    ELSE Slice(all_odds, 0, limit)

\* lifespan, before the application serves: the first canary is generated.
LifespanStart ==
    /\ current = None
    /\ Generate
    /\ UNCHANGED <<enabled, mono, wall, got, feedOut>>
    /\ UNCHANGED notCanary

\* One second passes on both clocks.
CanaryTick ==
    /\ mono < MaxCanaryTime
    /\ mono' = mono + 1
    /\ wall' = wall + MsPerSecond
    /\ UNCHANGED <<enabled, current, lastRotation, draws, got, feedOut>>
    /\ UNCHANGED notCanary

\* GET /feed/markets
ListFeedMarkets(platform, search, limit, offset, fetched) ==
    /\ current /= None
    /\ IF platform /= NoneVal /\ platform \notin Range(FEED_PLATFORMS)
       THEN /\ feedOut' = [kind |-> "404", data |-> <<>>, canary |-> None]
            /\ UNCHANGED <<current, lastRotation, draws, got>>
       ELSE LET all_odds == Collect(SlugsOf(platform), fetched, 1)
            IN  IF enabled
                THEN /\ Current
                     /\ feedOut' = [kind |-> "markets",
                                    data |-> Paginate(all_odds \o <<CanaryOdds(current')>>,
                                                      search, limit, offset),
                                    canary |-> None]
                ELSE /\ feedOut' = [kind |-> "markets",
                                data |-> Paginate(all_odds, search, limit, offset),
                                canary |-> None]
                     /\ UNCHANGED <<current, lastRotation, draws, got>>
    /\ UNCHANGED <<enabled, mono, wall>>
    /\ UNCHANGED notCanary

\* GET /feed/sync
FeedSync(fetched) ==
    /\ current /= None
    /\ LET markets == Collect(FEED_PLATFORMS, fetched, 1)
       IN  IF enabled
           THEN /\ Current
                /\ feedOut' = [kind |-> "sync",
                               data |-> markets \o <<CanaryOdds(current')>>,
                               canary |-> None]
           ELSE /\ feedOut' = [kind |-> "sync", data |-> markets, canary |-> None]
                /\ UNCHANGED <<current, lastRotation, draws, got>>
    /\ UNCHANGED <<enabled, mono, wall>>
    /\ UNCHANGED notCanary

\* broadcast_loop building the payload of one round.
BroadcastPayload(fetched) ==
    /\ current /= None
    /\ Current
    /\ feedOut' = [kind |-> "market_snapshot",
                   data |-> Collect(FEED_PLATFORMS, fetched, 1),
                   canary |-> current']
    /\ UNCHANGED <<enabled, mono, wall>>
    /\ UNCHANGED notCanary

CanaryStep ==
    \/ LifespanStart
    \/ CanaryTick
    \/ \E platform \in PlatformFilters, search \in BOOLEAN,
          limit \in 1..MaxLimit, offset \in 0..MaxOffset :
          \E fetched \in Fetches(SlugsOf(platform), limit) :
             ListFeedMarkets(platform, search, limit, offset, fetched)
    \/ \E fetched \in Fetches(FEED_PLATFORMS, MaxFetched) : FeedSync(fetched)
    \/ \E fetched \in Fetches(FEED_PLATFORMS, MaxFetched) : BroadcastPayload(fetched)

\* The generator as constructed, the process just started.
InitCanary ==
    /\ enabled \in BOOLEAN
    /\ mono = 1
    /\ wall = MsPerSecond
    /\ current = None
    /\ lastRotation = 0
    /\ draws = 0
    /\ got = None
    /\ feedOut = None

\* The canary is not looked at.
IdleCanary ==
    /\ enabled = FALSE
    /\ mono = 1
    /\ wall = MsPerSecond
    /\ current = None
    /\ lastRotation = 0
    /\ draws = 0
    /\ got = None
    /\ feedOut = None

\* ------------------------------------------------------------ pagination

\* The most items one page holds.
MaxPageItems == 2

\* for _ in range(25)
PageCap == 25

\* The cursor of a response: absent, empty, or a fresh one.
Cursors == {NoneVal, "", "next"}

\* The items of a page: for each, whether _parse_market accepts it.
RECURSIVE ItemLists(_)
ItemLists(n) ==
    IF n = 0
    THEN {<<>>}
    ELSE ItemLists(n - 1) \cup {Append(l, b) : l \in {x \in ItemLists(n - 1) : Len(x) = n - 1}, b \in BOOLEAN}

\* What one page request brings: an exception (transport error, HTTP error
\* status, 429, a body that is not JSON), or a JSON object whose page is a list
\* of items or null.
Responses ==
    {Raised} \cup
    {[page |-> p, cursor |-> c] :
        p \in {None} \cup {[items |-> l] : l \in ItemLists(MaxPageItems)},
        c \in Cursors}

\* The number of items of the page that _parse_market accepts.
Parsed(items) == Cardinality({i \in DOMAIN items : items[i]})

\* One iteration of the loop of _fetch_all_markets: the request and its page.
PageRequest(data) ==
    /\ ppc = "loop"
    /\ pcount' = pcount + 1
    /\ IF data = Raised
       THEN /\ ppc' = "after"
            /\ UNCHANGED <<pcursor, pall>>
       ELSE IF data.page = None
       THEN /\ ppc' = "raised"
            /\ UNCHANGED <<pcursor, pall>>
       ELSE /\ pall' = pall + Parsed(data.page.items)
            /\ IF data.cursor \in {NoneVal, ""} \/ data.page.items = <<>>
               THEN /\ ppc' = "after"
                    /\ UNCHANGED pcursor
               ELSE /\ pcursor' = data.cursor
                    /\ ppc' = IF pcount' = PageCap THEN "after" ELSE "loop"
    /\ UNCHANGED pres
    /\ UNCHANGED notPages

\* After the loop: the event grouping, the cache store and the return.
PageReturn ==
    /\ ppc = "after"
    /\ ppc' = "returned"
    /\ pres' = <<pall>>
    /\ UNCHANGED <<pcursor, pcount, pall>>
    /\ UNCHANGED notPages

PageStep ==
    \/ \E data \in Responses : PageRequest(data)
    \/ PageReturn

\* _fetch_all_markets has found the cache empty or expired and enters the loop.
InitPages ==
    /\ ppc = "loop"
    /\ pcursor = NoneVal
    /\ pcount = 0
    /\ pall = 0
    /\ pres = Null

\* No fetch is looked at.
IdlePages ==
    /\ ppc = "returned"
    /\ pcursor = NoneVal
    /\ pcount = 0
    /\ pall = 0
    /\ pres = <<0>>

\* ---------------------------------------------------------- market cache

\* Number of callers inside one adapter at a time.
MaxCallers == 2

\* The clock advances in steps of a TTL divided by TtlTicks.
TtlTicks == 2

\* The number of steps the clock advances.
MaxCacheTicks == 3

Callers == 1..MaxCallers

\* Kalshi, Polymarket, and Limitless, whose get_markets and search_markets
\* Opinion and Myriad repeat line by line.
Venues == {"kalshi", "polymarket", "limitless"}

\* self._cache_ttl
CacheTtl(v) == IF v = "polymarket" THEN 120 ELSE 300

\* The seconds of one step of the clock.
TickSeconds(v) == CacheTtl(v) \div TtlTicks

\* The venues whose search_markets asks the upstream itself, past the cache.
SearchesUpstream(v) == v = "polymarket"

NoCall == [op |-> NoneVal, now |-> 0]

\* if self._markets_cache and (now - self._markets_cache_time) < self._cache_ttl
CacheHit(t) == cache /= <<>> /\ (t - cacheTime) < CacheTtl(venue)

\* What an upstream market fetch ends as: a list with markets (partial, for
\* Kalshi, when a later page failed), a list without any, or an exception.
FetchOutcomes == {"markets", "empty", "raise"}

\* The list parsed from the answer of the upstream: its markets as of now.
Fetched(outcome) == IF outcome = "markets" THEN <<ctime>> ELSE <<>>

\* search_markets keeps the markets whose title or description holds the query:
\* all of the list, or none of it.
Filter(list, matches) == IF matches THEN list ELSE <<>>

\* get_markets / search_markets up to its first await.
Call(c, op, matches) ==
    /\ cpc[c] = "idle"
    /\ IF op = "search" /\ SearchesUpstream(venue)
       THEN /\ cpc' = [cpc EXCEPT ![c] = "searching"]
            /\ ccall' = [ccall EXCEPT ![c] = [op |-> op, now |-> ctime]]
            /\ UNCHANGED cres
       ELSE IF CacheHit(ctime)
       THEN /\ cres' = [list |-> IF op = "search" THEN Filter(cache, matches) ELSE cache]
            /\ UNCHANGED <<cpc, ccall>>
       ELSE /\ cpc' = [cpc EXCEPT ![c] = "fetching"]
            /\ ccall' = [ccall EXCEPT ![c] = [op |-> op, now |-> ctime]]
            /\ UNCHANGED cres
    /\ UNCHANGED <<venue, ctime, cache, cacheTime>>
    /\ UNCHANGED notCache

\* The Market get_market hands back: the entry of the list stored at the time
\* `stored`, or the one parsed from the upstream's answer to the request for
\* that market.
CachedMarket(stored) == [market |-> stored, from |-> "cache"]

FetchedMarket(t) == [market |-> t, from |-> "upstream"]

\* The venues whose get_market goes through _fetch_all_markets and its TTL
\* test; the others walk self._markets_cache as it is.
LooksUpThroughFetch(v) == v = "kalshi"

\* The upstream answered the fetch of get_markets / _fetch_all_markets; a
\* get_market of Kalshi goes on to look the market up in the list, and to ask
\* for the market itself when it is not there.
FetchEnd(c, outcome, matches) ==
    /\ cpc[c] = "fetching"
    /\ IF outcome = "raise"
       THEN /\ cres' = Raised
            /\ cpc' = [cpc EXCEPT ![c] = "idle"]
            /\ ccall' = [ccall EXCEPT ![c] = NoCall]
            /\ UNCHANGED <<cache, cacheTime>>
       ELSE /\ cache' = Fetched(outcome)
            /\ cacheTime' = ccall[c].now
            /\ IF ccall[c].op = "market" /\ Filter(Fetched(outcome), matches) = <<>>
               THEN /\ cpc' = [cpc EXCEPT ![c] = "asking"]
                    /\ UNCHANGED <<cres, ccall>>
               ELSE /\ cres' = IF ccall[c].op = "market"
                               THEN FetchedMarket(Fetched(outcome)[1])
                               ELSE [list |-> IF ccall[c].op = "search"
                                              THEN Filter(Fetched(outcome), matches)
                                              ELSE Fetched(outcome)]
                    /\ cpc' = [cpc EXCEPT ![c] = "idle"]
                    /\ ccall' = [ccall EXCEPT ![c] = NoCall]
    /\ UNCHANGED <<venue, ctime>>
    /\ UNCHANGED notCache

\* get_market up to its first await: the market found in the list (matches),
\* or the request for the one market begun; for Kalshi the list is the one
\* _fetch_all_markets returns, fetched again when the cache has expired.
GetMarket(c, matches) ==
    /\ cpc[c] = "idle"
    /\ IF LooksUpThroughFetch(venue) /\ ~CacheHit(ctime)
       THEN /\ cpc' = [cpc EXCEPT ![c] = "fetching"]
            /\ ccall' = [ccall EXCEPT ![c] = [op |-> "market", now |-> ctime]]
            /\ UNCHANGED cres
       ELSE IF Filter(cache, matches) /= <<>>
       THEN /\ cres' = CachedMarket(cache[1])
            /\ UNCHANGED <<cpc, ccall>>
       ELSE /\ cpc' = [cpc EXCEPT ![c] = "asking"]
            /\ ccall' = [ccall EXCEPT ![c] = [op |-> "market", now |-> ctime]]
            /\ UNCHANGED cres
    /\ UNCHANGED <<venue, ctime, cache, cacheTime>>
    /\ UNCHANGED notCache

\* The upstream answered the request for the one market: the Market parsed
\* from it, or None when the request or the parsing raised.
GetMarketEnd(c, ok) ==
    /\ cpc[c] = "asking"
    /\ cres' = IF ok THEN FetchedMarket(ctime) ELSE None
    /\ cpc' = [cpc EXCEPT ![c] = "idle"]
    /\ ccall' = [ccall EXCEPT ![c] = NoCall]
    /\ UNCHANGED <<venue, ctime, cache, cacheTime>>
    /\ UNCHANGED notCache

\* The upstream answered the request of a search_markets that asks it directly.
SearchEnd(c, outcome, matches) ==
    /\ cpc[c] = "searching"
    /\ cres' = IF outcome = "raise"
               THEN Raised
               ELSE [list |-> Filter(Fetched(outcome), matches)]
    /\ cpc' = [cpc EXCEPT ![c] = "idle"]
    /\ ccall' = [ccall EXCEPT ![c] = NoCall]
    /\ UNCHANGED <<venue, ctime, cache, cacheTime>>
    /\ UNCHANGED notCache

\* Time passes.
CacheTick ==
    /\ ctime < CacheTtl(venue) + MaxCacheTicks * TickSeconds(venue)
    /\ ctime' = ctime + TickSeconds(venue)
    /\ UNCHANGED <<venue, cache, cacheTime, cpc, ccall, cres>>
    /\ UNCHANGED notCache

CacheStep ==
    \/ \E c \in Callers, op \in {"get", "search"}, matches \in BOOLEAN : Call(c, op, matches)
    \/ \E c \in Callers, outcome \in FetchOutcomes, matches \in BOOLEAN :
          FetchEnd(c, outcome, matches)
    \/ \E c \in Callers, outcome \in FetchOutcomes, matches \in BOOLEAN :
          SearchEnd(c, outcome, matches)
    \/ \E c \in Callers, matches \in BOOLEAN : GetMarket(c, matches)
    \/ \E c \in Callers, ok \in BOOLEAN : GetMarketEnd(c, ok)
    \/ CacheTick

\* An adapter as constructed: the cache empty, its time 0, the clock far past it.
InitCache ==
    /\ venue \in Venues
    /\ ctime = CacheTtl(venue)
    /\ cache = <<>>
    /\ cacheTime = 0
    /\ cpc = [c \in Callers |-> "idle"]
    /\ ccall = [c \in Callers |-> NoCall]
    /\ cres = None

\* No adapter's cache is looked at.
IdleCache ==
    /\ venue = "kalshi"
    /\ ctime = CacheTtl(venue)
    /\ cache = <<>>
    /\ cacheTime = 0
    /\ cpc = [c \in Callers |-> "idle"]
    /\ ccall = [c \in Callers |-> NoCall]
    /\ cres = None

\* -------------------------------------------------------------- adapters

Adapters5 == {"kalshi", "polymarket", "limitless", "opinion", "myriad"}

\* The adapters of the EVM chains; Kalshi trades on Solana.
EvmVenues == Adapters5 \ {"kalshi"}

\* The kinds of object a caller can pass as private_key.
KeyTypes == {"Keypair", "LocalAccount", "str"}

\* isinstance(private_key, Keypair) / isinstance(private_key, LocalAccount)
KeyMatches(v, key) == key = (IF v = "kalshi" THEN "Keypair" ELSE "LocalAccount")

\* The fee account configured: none, or an address.
FeeAccounts == {"", "0xFeeAccount00000000000000000000000000000000"}

\* The fee rates configured: none, or the default of 50 basis points.
FeeRates == {0, 50}

\* What str(e) of an exception caught by execute_trade can be.
ErrorTexts == {"", "connection refused"}

\* The contracts execute_trade raises the allowance of, in order.
Spenders(v) ==
    CASE v = "polymarket" -> <<"exchange">>
      [] v = "opinion" -> <<"CTF_EXCHANGE", "CONDITIONAL_TOKENS">>
      [] v = "myriad" -> <<"tx_target">>
      [] OTHER -> <<>>

\* A PreparedTransaction: the contract called, the call, and for an approval
\* the spender approved.
Tx(to, call, spender) == [to |-> to, call |-> call, spender |-> spender]

\* The fee transaction, after the others, of the adapters that build one:
\* Polymarket builds none.
FeeTxs(v, fee_account, fee_bps) ==
    IF v \in {"limitless", "opinion", "myriad"} /\ fee_bps > 0 /\ fee_account /= ""
    THEN <<Tx("collateral", "approve", "fee_account")>>
    ELSE <<>>

\* prepare_transaction asking for the fee before the trade.
PrepareTxsFeeFirst(v, fee_account, fee_bps) ==
    IF v = "kalshi"
    THEN <<Tx("solana_program", "trade", NoneVal)>>
    ELSE <<Tx("collateral", "approve", "exchange")>>
         \o FeeTxs(v, fee_account, fee_bps)
         \o <<Tx("exchange", "trade", NoneVal)>>

\* The list prepare_transaction builds.
PrepareTxs(v, fee_account, fee_bps) ==
    CASE v = "kalshi" -> <<Tx("solana_program", "trade", NoneVal)>>
      [] v = "opinion" ->
            <<Tx("collateral", "approve", "CTF_EXCHANGE"),
              Tx("collateral", "approve", "CONDITIONAL_TOKENS"),
              Tx("CTF_EXCHANGE", "trade", NoneVal)>>
            \o FeeTxs(v, fee_account, fee_bps)
      [] OTHER ->
            <<Tx("collateral", "approve", "exchange"),
              Tx("exchange", "trade", NoneVal)>>
            \o FeeTxs(v, fee_account, fee_bps)

\* prepare_transaction: get_quote (and, for Kalshi, the order request) raises,
\* or the list is built and returned.
PrepareTransaction(raises) ==
    /\ xtxs = None
    /\ xtxs' = IF raises THEN Raised ELSE [txs |-> PrepareTxs(xvenue, xfeeAccount, xfeeBps)]
    /\ UNCHANGED <<xvenue, xfeeAccount, xfeeBps, xpc, xkey, xspender, xsigned, xsent,
                   xreceipts, xres>>
    /\ UNCHANGED notAdapter

\* TradeResult(success=False, ..., output_amount=None, error_message=msg, ...)
Failure(msg) == [success |-> FALSE, output_amount |-> Null, error_message |-> msg]

\* TradeResult(success=True, ..., output_amount=quote.expected_output, error_message=None, ...)
Success == [success |-> TRUE, output_amount |-> <<2>>, error_message |-> NoneVal]

\* The text of the key type rejection.
InvalidKeyText(v) ==
    IF v = "kalshi"
    THEN "Invalid key type, expected Solana Keypair"
    ELSE "Invalid key type, expected EVM LocalAccount"

\* execute_trade: the isinstance test of the key.
ExecuteCheckKey(key) ==
    /\ xpc = "start"
    /\ xkey' = key
    /\ IF ~KeyMatches(xvenue, key)
       THEN /\ xres' = Failure(InvalidKeyText(xvenue))
            /\ xpc' = "done"
       ELSE /\ xpc' = IF Spenders(xvenue) = <<>> THEN "trade" ELSE "approve"
            /\ UNCHANGED xres
    /\ UNCHANGED <<xvenue, xfeeAccount, xfeeBps, xtxs, xspender, xsigned, xsent, xreceipts>>
    /\ UNCHANGED notAdapter

\* What the allowance step of one spender ends as: the allowance suffices; a
\* call before the signing raises; the send raises; the wait for the receipt
\* raises; the receipt arrives with status 0 or 1.
ApproveOutcomes == {"enough", "raise_before", "raise_send", "raise_wait", "receipt0", "receipt1"}

\* execute_trade: the allowance of the next spender, raised if too low.  The
\* status of the approval's receipt is not looked at.
ExecuteApprove(outcome, msg) ==
    /\ xpc = "approve"
    /\ xsigned' = IF outcome \in {"enough", "raise_before"} THEN xsigned ELSE xsigned + 1
    /\ xsent' = IF outcome \in {"enough", "raise_before"} THEN xsent ELSE xsent + 1
    /\ IF outcome \in {"raise_before", "raise_send", "raise_wait"}
       THEN /\ xres' = Failure(msg)
            /\ xpc' = "done"
            /\ UNCHANGED <<xspender, xreceipts>>
       ELSE /\ xreceipts' = IF outcome = "receipt0" THEN Append(xreceipts, 0)
                            ELSE IF outcome = "receipt1" THEN Append(xreceipts, 1)
                            ELSE xreceipts
            /\ xspender' = xspender + 1
            /\ xpc' = IF xspender = Len(Spenders(xvenue)) THEN "trade" ELSE "approve"
            /\ UNCHANGED xres
    /\ UNCHANGED <<xvenue, xfeeAccount, xfeeBps, xtxs, xkey>>
    /\ UNCHANGED notAdapter

\* What the trade step of an adapter can end as.
TradeOutcomes(v) ==
    {"raise_before", "raise_send", "ok"}
    \cup (IF v \in {"limitless", "opinion"} THEN {"import_error"} ELSE {})
    \cup (IF v = "myriad" THEN {"no_calldata", "raise_wait", "reverted"} ELSE {})

\* The adapters that sign the trade transaction themselves.
SignsTrade(v) == v \in {"kalshi", "myriad"}

\* execute_trade: the order or transaction of the trade, and the result.
ExecuteSubmit(outcome, msg) ==
    /\ xpc = "trade"
    /\ outcome \in TradeOutcomes(xvenue)
    /\ xsigned' = IF SignsTrade(xvenue) /\ outcome \in {"raise_send", "raise_wait", "reverted", "ok"}
                  THEN xsigned + 1 ELSE xsigned
    /\ xsent' = IF outcome \in {"raise_send", "raise_wait", "reverted", "ok"}
                THEN xsent + 1 ELSE xsent
    /\ xreceipts' = IF outcome = "reverted" THEN Append(xreceipts, 0)
                    ELSE IF outcome = "ok" /\ xvenue = "myriad" THEN Append(xreceipts, 1)
                    ELSE xreceipts
    /\ xres' = CASE outcome = "ok" -> Success
                 [] outcome = "reverted" -> Failure("Transaction reverted")
                 [] outcome = "no_calldata" -> Failure("[myriad] No calldata in quote")
                 [] outcome = "import_error" ->
                        Failure(IF xvenue = "limitless" THEN "limitless_sdk not installed"
                                ELSE "opinion_clob_sdk not installed")
                 [] OTHER -> Failure(msg)
    /\ xpc' = "done"
    /\ UNCHANGED <<xvenue, xfeeAccount, xfeeBps, xtxs, xkey, xspender>>
    /\ UNCHANGED notAdapter

AdapterStep ==
    \/ \E raises \in BOOLEAN : PrepareTransaction(raises)
    \/ \E key \in KeyTypes : ExecuteCheckKey(key)
    \/ \E outcome \in ApproveOutcomes, msg \in ErrorTexts : ExecuteApprove(outcome, msg)
    \/ \E outcome \in UNION {TradeOutcomes(v) : v \in Adapters5}, msg \in ErrorTexts :
          ExecuteSubmit(outcome, msg)

\* An adapter with its fee settings; nothing prepared, execute_trade just called.
InitAdapter ==
    /\ xvenue \in Adapters5
    /\ xfeeAccount \in FeeAccounts
    /\ xfeeBps \in FeeRates
    /\ xtxs = None
    /\ xpc = "start"
    /\ xkey = NoneVal
    /\ xspender = 1
    /\ xsigned = 0
    /\ xsent = 0
    /\ xreceipts = <<>>
    /\ xres = None

\* No adapter call is looked at.
IdleAdapter ==
    /\ xvenue = "kalshi"
    /\ xfeeAccount = ""
    /\ xfeeBps = 0
    /\ xtxs = Raised
    /\ xpc = "done"
    /\ xkey = NoneVal
    /\ xspender = 1
    /\ xsigned = 0
    /\ xsent = 0
    /\ xreceipts = <<>>
    /\ xres = None

\* ------------------------------------------------------------------ fee

\* FEE_BPS, the platform fee in basis points.
FEE_BPS == 50

\* The basis points of a whole: Decimal(10000).
BpsScale == 10000

\* The amounts looked at are the multiples of AmountStep up to MaxFeeAmount of them.
AmountStep == 5

MaxFeeAmount == 15

\* req.amount: a float of the request body.
FeeAmounts == {Float(Frac(k * AmountStep, 1)) : k \in 0 .. MaxFeeAmount}

\* Decimal(str(amount)): the digits of the float read as a decimal, which is
\* the float's own value for the amounts looked at.
DecimalOfFloat(a) == Frac(a.n, a.d)

\* Mutant: the fee taken in percent.
CalculateFeePercent(amount) == Frac(amount.n * FEE_BPS, amount.d * 100)

\* calculate_fee: amount * Decimal(FEE_BPS) / Decimal(10000), exact in Decimal.
CalculateFee(amount) == Frac(amount.n * FEE_BPS, amount.d * BpsScale)

\* What a stage did with the fee: the fee_amount of its response (a float) and
\* the fee_amount of the row it committed (the digits of the Decimal), each in
\* a tuple, Null where there is none.
FeeOutcome(returned, stored) == [returned |-> returned, stored |-> stored]

\* get_quote: 400 when the adapter's quote fails, else fee_amount=float(fee);
\* no row.
FeeQuote(ok) ==
    /\ fquote = None
    /\ fquote' = IF ok THEN FeeOutcome(<<Float(CalculateFee(DecimalOfFloat(famount)))>>, Null)
                 ELSE FeeOutcome(Null, Null)
    /\ UNCHANGED <<famount, fprepare, fexecute, notFee>>

\* prepare_trade: 400 when the adapter fails, before the fee is computed; else
\* the row with fee_amount=str(fee) and the response with fee_amount=float(fee).
FeePrepare(ok) ==
    /\ fprepare = None
    /\ fprepare' = IF ok
                   THEN LET fee == CalculateFee(DecimalOfFloat(famount))
                        IN  FeeOutcome(<<Float(fee)>>, <<fee>>)
                   ELSE FeeOutcome(Null, Null)
    /\ UNCHANGED <<famount, fquote, fexecute, notFee>>

\* execute_trade: the row with fee_amount=str(fee) is committed before the
\* adapter is called; the response carries fee_amount=float(fee) when the
\* trade succeeded, and a failure carries no fee.
FeeExecute(ok) ==
    /\ fexecute = None
    /\ fexecute' = LET fee == CalculateFee(DecimalOfFloat(famount))
                   IN  FeeOutcome(IF ok THEN <<Float(fee)>> ELSE Null, <<fee>>)
    /\ UNCHANGED <<famount, fquote, fprepare, notFee>>

FeeStep == \E ok \in BOOLEAN : FeeQuote(ok) \/ FeePrepare(ok) \/ FeeExecute(ok)

\* One amount, sent to the three stages.
InitFee ==
    /\ famount \in FeeAmounts
    /\ fquote = None
    /\ fprepare = None
    /\ fexecute = None

IdleFee ==
    /\ famount = Frac(0, 1)
    /\ fquote = FeeOutcome(Null, Null)
    /\ fprepare = FeeOutcome(Null, Null)
    /\ fexecute = FeeOutcome(Null, Null)

\* ------------------------------------------------------------ arbitrage

\* The adapters of platform_registry.all() the scan is followed over, in the
\* order of the dict; opinion and limitless are visited by the same loop body.
ArbVenues == <<"kalshi", "polymarket", "myriad">>

\* Number of markets the venues return to one scan, all together.
MaxArbMarkets == 3

\* m.title of the markets returned.
ArbTitles == {" Rain ", "rain", "Snow"}

\* m.title.lower().strip()
Normalized(title) == IF title = "Snow" THEN "snow" ELSE "rain"

\* A Market as a venue's get_markets returns it: yes_price is Null or a Decimal.
ArbMarket(title, price, active) == [title |-> title, yes_price |-> price, is_active |-> active]

\* The markets a venue can return.
ArbCatalogue ==
    {ArbMarket(" Rain ", <<Frac(1, 10)>>, TRUE), ArbMarket("rain", <<Frac(3, 10)>>, TRUE),
     ArbMarket("rain", <<Frac(0, 1)>>, TRUE), ArbMarket("rain", Null, TRUE),
     ArbMarket("rain", <<Frac(3, 10)>>, FALSE),
     ArbMarket("Snow", <<Frac(3, 10)>>, TRUE)}

\* The lists of at most n markets.
ArbLists(n) == UNION {[1..k -> ArbCatalogue] : k \in 0..n}

\* min_spread as the caller writes it, and limit: an int with le=50 and no
\* lower bound.
MinSpreads == {Frac(0, 1), Frac(1, 5)}

ArbLimits == {0 - 1, 0, 1, 50}

\* bool(m.yes_price): None and Decimal 0 are both false.
Truthy(price) == price /= Null /\ price[1].n /= 0

\* all_markets.setdefault(key, []).append(m): a dict in insertion order, as
\* the sequence of its (key, list) items.
SetDefaultAppend(groups, key, m) ==
    IF \E g \in DOMAIN groups : groups[g].key = key
    THEN [g \in DOMAIN groups |->
            IF groups[g].key = key
            THEN [groups[g] EXCEPT !.markets = Append(@, m)]
            ELSE groups[g]]
    ELSE Append(groups, [key |-> key, markets |-> <<m>>])

\* for m in markets: the markets of one venue filed under their titles.
RECURSIVE Collected(_, _, _)
Collected(groups, slug, markets) ==
    IF markets = <<>> THEN groups
    ELSE LET m == Head(markets)
         IN  Collected(IF Truthy(m.yes_price) /\ m.is_active
                       THEN SetDefaultAppend(groups, Normalized(m.title),
                                             [platform |-> slug, title |-> m.title,
                                              yes_price |-> m.yes_price])
                       ELSE groups,
                       slug, Tail(markets))

\* x - y and x / y of floats, each rounded to a float.
FloatSub(x, y) == Float(Frac(x.n * y.d - y.n * x.d, x.d * y.d))

FloatDiv(x, y) == Float(Frac(x.n * y.d, x.d * y.n))

\* round(x, ndigits) of a float: the float of the nearest decimal, digits
\* being 10 ** ndigits.
Round(x, digits) == Float(Frac((2 * x.n * digits + x.d) \div (2 * x.d), digits))

\* The body of the pair loop: nothing, or the one opportunity appended.
Opportunity(m1, m2, min_spread) ==
    IF m1.platform = m2.platform \/ ~Truthy(m1.yes_price) \/ ~Truthy(m2.yes_price)
    THEN <<>>
    ELSE LET p1 == Float(m1.yes_price[1])
             p2 == Float(m2.yes_price[1])
             low == FracLess(p1, p2)
             spread == IF low THEN FloatSub(p2, p1) ELSE FloatSub(p1, p2)
             buy_p == IF low THEN m1 ELSE m2
             sell_p == IF low THEN m2 ELSE m1
             avg_price == Float(Frac(p1.n * p2.d + p2.n * p1.d, 2 * p1.d * p2.d))
         IN  IF FracLess(spread, Float(min_spread))
             THEN <<>>
             ELSE << [market_title |-> m1.title,
                      buy_platform |-> buy_p.platform,
                      buy_price |-> Float(buy_p.yes_price[1]),
                      sell_platform |-> sell_p.platform,
                      sell_price |-> Float(sell_p.yes_price[1]),
                      spread |-> Round(spread, 10000),
                      spread_pct |-> IF avg_price.n > 0
                                     THEN Round(Float(Frac(FloatDiv(spread, avg_price).n * 100,
                                                           FloatDiv(spread, avg_price).d)), 100)
                                     ELSE Frac(0, 1)] >>

\* for i in range(len(markets)): for j in range(i + 1, len(markets))
RECURSIVE PairLoop(_, _, _, _)
PairLoop(markets, i, j, min_spread) ==
    IF i > Len(markets) THEN <<>>
    ELSE IF j > Len(markets) THEN PairLoop(markets, i + 1, i + 2, min_spread)
    ELSE Opportunity(markets[i], markets[j], min_spread)
            \o PairLoop(markets, i, j + 1, min_spread)

\* for title, markets in all_markets.items()
RECURSIVE Opportunities(_, _)
Opportunities(groups, min_spread) ==
    IF groups = <<>> THEN <<>>
    ELSE (IF Len(Head(groups).markets) < 2 THEN <<>>
          ELSE PairLoop(Head(groups).markets, 1, 2, min_spread))
            \o Opportunities(Tail(groups), min_spread)

\* x placed into the sorted list s before the first entry that is not larger.
RECURSIVE Inserted(_, _)
Inserted(x, s) ==
    IF s = <<>> THEN <<x>>
    ELSE IF FracLess(x.spread, Head(s).spread) THEN <<Head(s)>> \o Inserted(x, Tail(s))
    ELSE <<x>> \o s

\* opportunities.sort(key=lambda x: x.spread, reverse=True): stable.
RECURSIVE SortedBySpread(_)
SortedBySpread(s) == IF s = <<>> THEN <<>> ELSE Inserted(Head(s), SortedBySpread(Tail(s)))

\* s[:limit] of Python: a negative limit counts from the end.
Truncated(s, limit) ==
    LET stop == IF limit < 0 THEN (IF Len(s) + limit < 0 THEN 0 ELSE Len(s) + limit)
                ELSE Min(limit, Len(s))
    IN  [i \in 1..stop |-> s[i]]

\* The number of markets the venues visited so far returned.
ArbFetched == Len(aseen)

\* Mutant: a failing venue ends the scan with what was collected.
ArbCollectAborting(outcome) ==
    /\ apc = "collect"
    /\ IF outcome = Raised THEN TRUE ELSE Len(outcome.list) + ArbFetched <= MaxArbMarkets
    /\ IF outcome = Raised
       THEN /\ apc' = "scan"
            /\ afailed' = afailed \cup {ArbVenues[anext]}
            /\ UNCHANGED <<aall, aseen>>
       ELSE /\ aall' = Collected(aall, ArbVenues[anext], outcome.list)
            /\ UNCHANGED afailed
            /\ aseen' = aseen \o [i \in DOMAIN outcome.list |->
                                    [platform |-> ArbVenues[anext],
                                     title |-> outcome.list[i].title,
                                     yes_price |-> outcome.list[i].yes_price,
                                     is_active |-> outcome.list[i].is_active]]
            /\ apc' = IF anext = Len(ArbVenues) THEN "scan" ELSE "collect"
    /\ anext' = anext + 1
    /\ UNCHANGED <<aopps, amin, alimit, ares, notArb>>

\* One round of the loop over the adapters: get_markets raises and the venue
\* is passed over, or its markets are filed. aseen keeps what the venues
\* returned and afailed the venues that raised.
ArbCollect(outcome) ==
    /\ apc = "collect"
    /\ IF outcome = Raised THEN TRUE ELSE Len(outcome.list) + ArbFetched <= MaxArbMarkets
    /\ IF outcome = Raised
       THEN /\ afailed' = afailed \cup {ArbVenues[anext]}
            /\ UNCHANGED <<aall, aseen>>
       ELSE /\ aall' = Collected(aall, ArbVenues[anext], outcome.list)
            /\ UNCHANGED afailed
            /\ aseen' = aseen \o [i \in DOMAIN outcome.list |->
                                    [platform |-> ArbVenues[anext],
                                     title |-> outcome.list[i].title,
                                     yes_price |-> outcome.list[i].yes_price,
                                     is_active |-> outcome.list[i].is_active]]
    /\ anext' = anext + 1
    /\ apc' = IF anext = Len(ArbVenues) THEN "scan" ELSE "collect"
    /\ UNCHANGED <<aopps, amin, alimit, ares, notArb>>

\* The loops over the groups and their pairs, for the min_spread of the request.
ArbScan(min_spread) ==
    /\ apc = "scan"
    /\ amin' = <<min_spread>>
    /\ aopps' = Opportunities(aall, min_spread)
    /\ apc' = "sort"
    /\ UNCHANGED <<anext, aall, aseen, afailed, alimit, ares, notArb>>

\* The sort and the slice, for the limit of the request.
ArbReturn(limit) ==
    /\ apc = "sort"
    /\ alimit' = <<limit>>
    /\ ares' = [list |-> Truncated(SortedBySpread(aopps), limit)]
    /\ apc' = "done"
    /\ UNCHANGED <<anext, aall, aseen, afailed, aopps, amin, notArb>>

ArbStep ==
    \/ \E outcome \in {Raised} \cup {[list |-> l] : l \in ArbLists(MaxArbMarkets - ArbFetched)} :
          ArbCollect(outcome)
    \/ \E min_spread \in MinSpreads : ArbScan(min_spread)
    \/ \E limit \in ArbLimits : ArbReturn(limit)

\* A request received: nothing collected yet.
InitArb ==
    /\ apc = "collect"
    /\ anext = 1
    /\ aall = <<>>
    /\ aseen = <<>>
    /\ afailed = {}
    /\ aopps = <<>>
    /\ amin = Null
    /\ alimit = Null
    /\ ares = None

IdleArb ==
    /\ apc = "done"
    /\ anext = Len(ArbVenues) + 1
    /\ aall = <<>>
    /\ aseen = <<>>
    /\ afailed = {}
    /\ aopps = <<>>
    /\ amin = Null
    /\ alimit = Null
    /\ ares = None

\* ------------------------------------------------------------ order book

\* Number of price levels on one side of a book the upstream returns.
MaxBookLevels == 2

\* The prices of the levels, as the upstream writes them.
BookPrices == {Frac(0, 1), Frac(1, 4), Frac(3, 4)}

\* One side of a book as the upstream returns it: (price, size) entries in
\* the upstream's order.
BookSides == UNION {[1..k -> {<<p, 10>> : p \in BookPrices}] : k \in 0..MaxBookLevels}

\* What the order book request brings back: an exception, or the two sides.
BookResponses == {Raised} \cup {[bids |-> b, asks |-> a] : b \in BookSides, a \in BookSides}

\* The entries of a JSON object have distinct keys (Kalshi keys its levels by price).
DistinctPrices(side) == \A i, j \in DOMAIN side : i /= j => side[i][1] /= side[j][1]

\* x placed into the sorted side s: list.sort(key=lambda x: x[0]), reversed or not.
RECURSIVE InsertedLevel(_, _, _)
InsertedLevel(x, s, reverse) ==
    IF s = <<>> THEN <<x>>
    ELSE IF (IF reverse THEN FracLess(x[1], Head(s)[1]) ELSE FracLess(Head(s)[1], x[1]))
         THEN <<Head(s)>> \o InsertedLevel(x, Tail(s), reverse)
         ELSE <<x>> \o s

RECURSIVE SortedSide(_, _)
SortedSide(s, reverse) ==
    IF s = <<>> THEN <<>> ELSE InsertedLevel(Head(s), SortedSide(Tail(s), reverse), reverse)

\* Kalshi: the asks are the bids of the opposite outcome at 1 - price.
Complement(side) == [i \in DOMAIN side |-> <<Frac(side[i][1].d - side[i][1].n, side[i][1].d), side[i][2]>>]

OrderBook(bids, asks) == [bids |-> bids, asks |-> asks]

\* OrderBook.best_bid, best_ask: the first entry's price, or None.
BestBid(book) == IF book.bids /= <<>> THEN <<book.bids[1][1]>> ELSE Null

BestAsk(book) == IF book.asks /= <<>> THEN <<book.asks[1][1]>> ELSE Null

\* OrderBook.spread: `if self.best_bid and self.best_ask`.
BookSpread(book) ==
    IF Truthy(BestBid(book)) /\ Truthy(BestAsk(book))
    THEN <<Frac(BestAsk(book)[1].n * BestBid(book)[1].d - BestBid(book)[1].n * BestAsk(book)[1].d,
                BestAsk(book)[1].d * BestBid(book)[1].d)>>
    ELSE Null

\* get_orderbook of adapter v on the upstream's answer: Kalshi and Polymarket
\* sort the sides and let a failed request out; Limitless, Opinion and Myriad
\* keep the upstream's order and answer a failed request with an empty book.
OrderbookOf(v, response) ==
    IF v = "kalshi"
    THEN IF response = Raised THEN Raised
         ELSE OrderBook(SortedSide(response.bids, TRUE), SortedSide(Complement(response.asks), FALSE))
    ELSE IF v = "polymarket"
    THEN IF response = Raised THEN Raised
         ELSE OrderBook(SortedSide(response.bids, TRUE), SortedSide(response.asks, FALSE))
    ELSE IF response = Raised THEN OrderBook(<<>>, <<>>)
         ELSE OrderBook(response.bids, response.asks)

GetOrderbook(response) ==
    /\ bres = None
    /\ bvenue = "kalshi" /\ response /= Raised
            => DistinctPrices(response.bids) /\ DistinctPrices(response.asks)
    /\ bres' = OrderbookOf(bvenue, response)
    /\ UNCHANGED <<bvenue, notBook>>

BookStep == \E response \in BookResponses : GetOrderbook(response)

InitBook ==
    /\ bvenue \in Adapters5
    /\ bres = None

IdleBook ==
    /\ bvenue = "kalshi"
    /\ bres = Raised

\* -------------------------------------------------------------- registry

\* PlatformRegistry._platforms in the order of the dict.
RegistryOrder == <<"kalshi", "polymarket", "myriad", "opinion", "limitless">>

\* Mutant: the first initialize that fails ends initialize_all with its exception.
RegInitializeRaising(ok) ==
    /\ rpc = "initialize_all"
    /\ rinit' = [rinit EXCEPT ![RegistryOrder[rnext]] = @ + 1]
    /\ rfailed' = IF ok THEN rfailed ELSE rfailed \cup {RegistryOrder[rnext]}
    /\ IF ~ok THEN rpc' = "raised" /\ rnext' = rnext
       ELSE IF rnext = Len(RegistryOrder) THEN rpc' = "serving" /\ rnext' = 1
       ELSE rpc' = rpc /\ rnext' = rnext + 1
    /\ UNCHANGED <<rclose, notRegistry>>

\* initialize_all, one round of its loop: await p.initialize(), which returns
\* or raises; the except logs and the loop goes on.
RegInitialize(ok) ==
    /\ rpc = "initialize_all"
    /\ rinit' = [rinit EXCEPT ![RegistryOrder[rnext]] = @ + 1]
    /\ rfailed' = IF ok THEN rfailed ELSE rfailed \cup {RegistryOrder[rnext]}
    /\ IF rnext = Len(RegistryOrder) THEN rpc' = "serving" /\ rnext' = 1
       ELSE rpc' = rpc /\ rnext' = rnext + 1
    /\ UNCHANGED <<rclose, notRegistry>>

\* lifespan: the application shuts down and close_all is awaited.
RegShutdown ==
    /\ rpc = "serving"
    /\ rpc' = "close_all"
    /\ UNCHANGED <<rnext, rinit, rclose, rfailed, notRegistry>>

\* close_all, one round of its loop: await p.close(), which returns or
\* raises; the except passes.
RegClose(ok) ==
    /\ rpc = "close_all"
    /\ rclose' = [rclose EXCEPT ![RegistryOrder[rnext]] = @ + 1]
    /\ rfailed' = IF ok THEN rfailed ELSE rfailed \cup {RegistryOrder[rnext] \o ".close"}
    /\ IF rnext = Len(RegistryOrder) THEN rpc' = "closed" /\ rnext' = rnext
       ELSE rpc' = rpc /\ rnext' = rnext + 1
    /\ UNCHANGED <<rinit, notRegistry>>

RegistryStep ==
    \/ \E ok \in BOOLEAN : RegInitialize(ok)
    \/ RegShutdown
    \/ \E ok \in BOOLEAN : RegClose(ok)

\* The registry built, lifespan about to await initialize_all.
InitRegistry ==
    /\ rpc = "initialize_all"
    /\ rnext = 1
    /\ rinit = [a \in Adapters5 |-> 0]
    /\ rclose = [a \in Adapters5 |-> 0]
    /\ rfailed = {}

IdleRegistry ==
    /\ rpc = "closed"
    /\ rnext = Len(RegistryOrder)
    /\ rinit = [a \in Adapters5 |-> 0]
    /\ rclose = [a \in Adapters5 |-> 0]
    /\ rfailed = {}

\* ------------------------------------------- get_bucket on worker threads

\* The rate of the key whose bucket the threads ask for.
StoreRate == MaxRate

\* require_request_limit is a plain def, so every request runs it on a worker
\* thread: a request arrives and calls limiter_store.get_bucket.
StoreCall(t) ==
    /\ gpc[t] = "idle"
    /\ gcalls < MaxCalls
    /\ gcalls' = gcalls + 1
    /\ gpc' = [gpc EXCEPT ![t] = "test"]
    /\ UNCHANGED <<gstore, gobjs, gheld, gconsumed, notStore>>

\* get_bucket: if cache_key not in self._buckets
StoreTest(t) ==
    /\ gpc[t] = "test"
    /\ gpc' = [gpc EXCEPT ![t] = IF gstore = 0 THEN "create" ELSE "fetch"]
    /\ UNCHANGED <<gstore, gobjs, gheld, gcalls, gconsumed, notStore>>

\* get_bucket: self._buckets[cache_key] = TokenBucket(rate=rate)
StoreCreate(t) ==
    /\ gpc[t] = "create"
    /\ gobjs' = Append(gobjs, TokenBucket(StoreRate))
    /\ gstore' = Len(gobjs) + 1
    /\ gpc' = [gpc EXCEPT ![t] = "fetch"]
    /\ UNCHANGED <<gheld, gcalls, gconsumed, notStore>>

\* get_bucket: return self._buckets[cache_key]
StoreFetch(t) ==
    /\ gpc[t] = "fetch"
    /\ gheld' = [gheld EXCEPT ![t] = gstore]
    /\ gpc' = [gpc EXCEPT ![t] = "consume"]
    /\ UNCHANGED <<gstore, gobjs, gcalls, gconsumed, notStore>>

\* bucket.consume() on the object get_bucket returned.
StoreConsume(t) ==
    /\ gpc[t] = "consume"
    /\ gobjs' = [gobjs EXCEPT ![gheld[t]] = Consume(@, now)]
    /\ gconsumed' = Append(gconsumed, gheld[t])
    /\ gpc' = [gpc EXCEPT ![t] = "idle"]
    /\ UNCHANGED <<gstore, gheld, gcalls, notStore>>

StoreStep ==
    \/ \E t \in Threads : StoreCall(t)
    \/ \E t \in Threads : StoreTest(t)
    \/ \E t \in Threads : StoreCreate(t)
    \/ \E t \in Threads : StoreFetch(t)
    \/ \E t \in Threads : StoreConsume(t)

\* limiter_store = RateLimiterStore(): no bucket yet, no request in flight.
InitStore ==
    /\ gstore = 0
    /\ gobjs = <<>>
    /\ gpc = [t \in Threads |-> "idle"]
    /\ gheld = [t \in Threads |-> 0]
    /\ gcalls = 0
    /\ gconsumed = <<>>

IdleStore == InitStore

\* --------------------------------------------------- one platform, by pages

\* The most markets the platform's list holds.
MaxListed == 4

\* offset: int = Query(0, ge=0), up to the end of the list.
PageOffsets == 0..MaxListed

\* limit: int = Query(100, ge=1, le=2000)
PageLimits == 1..MaxLimit

\* The platform's market list: the positions 1..n of its markets.
Listed(n) == [i \in 1..n |-> i]

\* adapter.get_markets(limit, offset): all_markets[offset : offset + limit]
GetMarkets(n, limit, offset) == Slice(Listed(n), offset, offset + limit)

\* for m in markets: all_odds.append(market_to_odds(m))
OddsOf(platform, markets) == [i \in DOMAIN markets |-> MarketToOdds(platform, markets[i])]

\* list_feed_markets with platform set, search and category absent.
ListFeedPage(platform, limit, offset, ok, price) ==
    /\ LET markets == IF ok THEN GetMarkets(llen, limit, offset) ELSE <<>>
           all_odds == OddsOf(platform, markets)
           injected == IF lenabled
                       THEN all_odds \o <<CanaryOdds(CanaryMarket(price))>>
                       ELSE all_odds
       IN  lres' = [data |-> Paginate(injected, FALSE, limit, offset)]
    /\ lreq' = [platform |-> platform, limit |-> limit, offset |-> offset, ok |-> ok]
    /\ UNCHANGED <<llen, lenabled, notListing>>

ListingStep ==
    \E platform \in Range(FEED_PLATFORMS), limit \in PageLimits, offset \in PageOffsets,
       ok \in BOOLEAN, price \in CanaryPrices :
        ListFeedPage(platform, limit, offset, ok, price)

NoPage == [platform |-> NoneVal, limit |-> 0, offset |-> 0, ok |-> FALSE]

\* The platform has its list; no page was asked for yet.
InitListing ==
    /\ llen \in 0..MaxListed
    /\ lenabled \in BOOLEAN
    /\ lreq = NoPage
    /\ lres = None

\* No listing is looked at.
IdleListing ==
    /\ llen = 0
    /\ lenabled = FALSE
    /\ lreq = NoPage
    /\ lres = None

\* ------------------------------------------------------- specifications

vars == <<pipelineVars, limiterVars, threadVars, ledgerVars, sessionVars, feedVars, edgeVars>>

\* The canary and the adapters are not looked at.
IdleEdge == IdleCanary /\ IdlePages /\ IdleCache /\ IdleAdapter /\ IdleFee
    /\ IdleArb
    /\ IdleBook
    /\ IdleRegistry
    /\ IdleStore
    /\ IdleListing

\* The pipeline, the limiter, the ledger and the feed loop are not looked at.
IdleCore == InitPipeline /\ IdleLimiter /\ IdleThreads /\ IdleLedger /\ IdleSessions /\ IdleFeed

\* The components a specification does not look at.
IdleOthers == IdleLedger /\ IdleSessions /\ IdleFeed /\ IdleEdge

Init == InitPipeline /\ IdleLimiter /\ IdleThreads /\ IdleOthers

Next == PipelineStep

Spec == Init /\ [][Next]_vars

InitL == InitLimiter /\ InitPipeline /\ IdleThreads /\ IdleOthers

NextL == LimiterStep

SpecLimiter == InitL /\ [][NextL]_vars

InitT == InitThreads /\ InitPipeline /\ IdleLimiter /\ IdleOthers

NextT == ThreadStep

SpecThreads == InitT /\ [][NextT]_vars

NextR == ReconfigStep

SpecReconfig == InitL /\ [][NextR]_vars

InitP == InitLedger /\ IdleSessions /\ InitPipeline /\ IdleLimiter /\ IdleThreads /\ IdleFeed /\ IdleEdge

NextP == LedgerStep

SpecLedger == InitP /\ [][NextP]_vars

InitS == InitLedger /\ InitSessions /\ InitPipeline /\ IdleLimiter /\ IdleThreads /\ IdleFeed /\ IdleEdge

NextS == SessionStep

SpecSessions == InitS /\ [][NextS]_vars

InitF == InitFeed /\ InitPipeline /\ IdleLimiter /\ IdleThreads /\ IdleLedger /\ IdleSessions /\ IdleEdge

NextF == FeedStep

SpecFeed == InitF /\ [][NextF]_vars

\* The event loop resumes every task that can run: the broadcast loop and lifespan.
SpecFeedFair == SpecFeed /\ WF_vars(LoopStep) /\ WF_vars(LifespanClose)

InitC == InitCanary /\ IdlePages /\ IdleCache /\ IdleAdapter /\ IdleFee /\ IdleArb /\ IdleBook /\ IdleRegistry /\ IdleStore /\ IdleListing /\ IdleCore

NextC == CanaryStep

SpecCanary == InitC /\ [][NextC]_vars

InitG == InitPages /\ IdleCanary /\ IdleCache /\ IdleAdapter /\ IdleFee /\ IdleArb /\ IdleBook /\ IdleRegistry /\ IdleStore /\ IdleListing /\ IdleCore

NextG == PageStep

SpecPages == InitG /\ [][NextG]_vars

InitM == InitCache /\ IdleCanary /\ IdlePages /\ IdleAdapter /\ IdleFee /\ IdleArb /\ IdleBook /\ IdleRegistry /\ IdleStore /\ IdleListing /\ IdleCore

NextM == CacheStep

SpecCache == InitM /\ [][NextM]_vars

InitA == InitAdapter /\ IdleCanary /\ IdlePages /\ IdleCache /\ IdleFee /\ IdleArb /\ IdleBook /\ IdleRegistry /\ IdleStore /\ IdleListing /\ IdleCore

NextA == AdapterStep

SpecAdapter == InitA /\ [][NextA]_vars

InitE == InitFee /\ IdleCanary /\ IdlePages /\ IdleCache /\ IdleAdapter /\ IdleArb /\ IdleBook /\ IdleRegistry /\ IdleStore /\ IdleListing /\ IdleCore

NextE == FeeStep

SpecFee == InitE /\ [][NextE]_vars

InitB == InitArb /\ IdleCanary /\ IdlePages /\ IdleCache /\ IdleAdapter /\ IdleFee /\ IdleBook /\ IdleRegistry /\ IdleStore /\ IdleListing /\ IdleCore

NextB == ArbStep

SpecArb == InitB /\ [][NextB]_vars

InitO == InitBook /\ IdleCanary /\ IdlePages /\ IdleCache /\ IdleAdapter /\ IdleFee /\ IdleArb /\ IdleRegistry /\ IdleStore /\ IdleListing /\ IdleCore

NextO == BookStep

SpecBook == InitO /\ [][NextO]_vars

InitY == InitRegistry /\ IdleCanary /\ IdlePages /\ IdleCache /\ IdleAdapter /\ IdleFee /\ IdleArb /\ IdleBook /\ IdleStore /\ IdleListing /\ IdleCore

NextY == RegistryStep

SpecRegistry == InitY /\ [][NextY]_vars

InitW == InitStore /\ IdleCanary /\ IdlePages /\ IdleCache /\ IdleAdapter /\ IdleFee /\ IdleArb /\ IdleBook /\ IdleRegistry /\ IdleListing /\ IdleCore

NextW == StoreStep

SpecStore == InitW /\ [][NextW]_vars

InitH == InitListing /\ IdleCanary /\ IdlePages /\ IdleCache /\ IdleAdapter /\ IdleFee /\ IdleArb /\ IdleBook /\ IdleRegistry /\ IdleStore /\ IdleCore

NextH == ListingStep

SpecListing == InitH /\ [][NextH]_vars

\* --------------------------------------------------------------- claims

\* The row of the Trade object the handler of request r holds.
RowOf(r) == trades[tradeOf[r]]

IsExecute(r) == req[r].op = "execute"

\* The outcome request r is about to hand, or has handed, to its caller.
Surfaced(r) == pc[r] \in {"respond", "done"}

OutcomeOf(r) == IF pc[r] = "respond" THEN pending[r] ELSE resp[r]

\* C1: in execute, whenever the adapter's get_quote or execute_trade has been
\* invoked for a request, a committed row of mode execute exists for it, and
\* the row is at status submitted while those calls are made.
C1_RowCommittedBeforeAdapter ==
    \A r \in Reqs :
        (IsExecute(r) /\ calls[r].get_quote + calls[r].execute_trade > 0) =>
            /\ \E i \in DOMAIN trades :
                /\ trades[i].req = r
                /\ trades[i].mode = "execute"
                /\ i = tradeOf[r]
            /\ pc[r] \in {"e_key", "e_quote_failed", "e_trade", "e_update"}
                    => RowOf(r).status = "submitted"

\* An execute request whose execute_trade has just been invoked.
C1_Witness ==
    \E r \in Reqs : IsExecute(r) /\ pc[r] = "e_update" /\ calls[r].execute_trade = 1

\* C2: an execute call whose quote step or key conversion fails has its row at
\* failed by the time the error is raised, and execute_trade was never invoked.
C2_QuoteFailureRecorded ==
    \A r \in Reqs :
        IsExecute(r) =>
            /\ pc[r] = "e_quote_failed" => calls[r].execute_trade = 0
            /\ (Surfaced(r) /\ OutcomeOf(r).code = 400) =>
                    /\ tradeOf[r] # 0
                    /\ RowOf(r).status = "failed"
                    /\ calls[r].execute_trade = 0

\* One execute failed at its quote and another at its key, both handed back.
C2_Witness ==
    \E r, q \in Reqs :
        /\ IsExecute(r) /\ pc[r] = "done" /\ resp[r].detail = "quote error"
        /\ IsExecute(q) /\ pc[q] = "done" /\ resp[q].detail = "Invalid private key"

Terminal(status) == status \in {"confirmed", "failed"}

\* The place of a status in quoted -> prepared -> submitted -> {confirmed | failed}.
Rank(status) ==
    IF Terminal(status) THEN Len(TradeStatus) - 1
    ELSE CHOOSE i \in 1..Len(TradeStatus) : TradeStatus[i] = status

\* C4: in every step every persisted row stays, its status does not move
\* backward, and a confirmed or failed status does not change.
C4_StatusMovesForward ==
    [][\A i \in DOMAIN trades :
            /\ i \in DOMAIN trades'
            /\ Rank(trades'[i].status) >= Rank(trades[i].status)
            /\ Terminal(trades[i].status) => trades'[i].status = trades[i].status]_vars

\* A prepared row, and an execute row that went to failed at the key while its
\* handler is still to respond.
C4_Witness ==
    /\ \E i \in DOMAIN trades : trades[i].status = "prepared"
    /\ \E r \in Reqs :
        /\ IsExecute(r) /\ pc[r] = "respond" /\ tradeOf[r] # 0
        /\ RowOf(r).status = "failed" /\ pending[r].detail = "Invalid private key"

C6_TokensWithinCapacity ==
    \A ck \in CacheKeys :
        buckets[ck] # None =>
            /\ buckets[ck].tokens >= 0
            /\ buckets[ck].tokens <= buckets[ck].rate * TicksPerPeriod

\* A bucket emptied by an allowed consume at the last tick, after a refill.
C6_Witness ==
    \E ck \in CacheKeys :
        /\ buckets[ck] # None
        /\ buckets[ck].tokens = 0
        /\ buckets[ck].last_refill = MaxTime
        /\ lastCheck.status = 200
        /\ lastCheck.fn = "require_request_limit"
        /\ ck = CacheKey(lastCheck.key, "rpm")

\* C7: of the consume() calls made on a bucket of capacity N at the instant of
\* its creation, the i-th is allowed iff i <= N.
C7_FirstNAllowed ==
    \A ck \in CacheKeys :
        \A i \in 1..Len(freshLog[ck]) :
            freshLog[ck][i] = (i <= buckets[ck].rate)

\* N + 1 calls were made on a bucket of capacity N at its creation instant.
C7_Witness ==
    \E ck \in CacheKeys :
        /\ buckets[ck] # None
        /\ Len(freshLog[ck]) = buckets[ck].rate + 1

\* How many threads consume() has allowed.
AllowedThreads == Cardinality({t \in Threads : tret[t] = "True"})

\* C8 as stated: when K concurrent consume() calls on a bucket holding t
\* tokens have all returned, at most floor(t) were allowed and the token count
\* dropped by exactly one per allowed call.
C8_NoDoubleConsume ==
    (\A t \in Threads : tpc[t] = "ret") =>
        /\ AllowedThreads <= tokens0 \div TicksPerPeriod
        /\ tbucket.tokens = tokens0 - AllowedThreads * TicksPerPeriod

\* C9 as stated: reset_in is 0 when remaining >= 1; below one token it is
\* positive, and smaller after the clock alone has advanced.
C9_ResetInDecreases ==
    [][\A ck \in CacheKeys :
            buckets[ck] # None =>
                /\ Remaining(buckets[ck]) >= 1 => ResetIn(buckets[ck]) = Frac(0, 1)
                /\ buckets[ck].tokens < TicksPerPeriod =>
                    /\ FracLess(Frac(0, 1), ResetIn(buckets[ck]))
                    /\ (now' > now /\ buckets'[ck] = buckets[ck])
                            => FracLess(ResetIn(buckets'[ck]), ResetIn(buckets[ck]))]_vars

\* The bucket a check finds under a cache key, created if absent.
Found(ck, rate) == IF buckets[ck] = None THEN TokenBucket(rate) ELSE buckets[ck]

\* C10: a trade-class check consumes from the request bucket first; it reports
\* the request-class denial, with the request bucket's values, iff that bucket
\* denies, and then leaves the trade bucket as it was (absent if absent); it
\* reports the trade-class denial, with the trade bucket's values, iff the
\* request bucket allowed, and was consumed, and the trade bucket denies.
C10_TradeCheckOrderAndReport ==
    [][(lastCheck'.n # lastCheck.n /\ lastCheck'.fn = "require_trade_limit") =>
        LET k == lastCheck'.key
            rk == CacheKey(k, "rpm")
            tk == CacheKey(k, "tpm")
            req_ok == ConsumeAllowed(Found(rk, apiKeys[k].rate_limit_rpm), now)
            trade_ok == ConsumeAllowed(Found(tk, apiKeys[k].rate_limit_tpm), now)
            headers == <<lastCheck'.limit, lastCheck'.remaining, lastCheck'.reset>>
        IN  /\ lastCheck'.detail = "Request rate limit exceeded" <=> ~req_ok
            /\ lastCheck'.detail = "Trade rate limit exceeded" <=> (req_ok /\ ~trade_ok)
            /\ lastCheck'.status = 429 <=> ~(req_ok /\ trade_ok)
            /\ ~req_ok =>
                /\ buckets'[tk] = buckets[tk]
                /\ headers = <<apiKeys[k].rate_limit_rpm, Remaining(buckets'[rk]),
                               IntOf(ResetIn(buckets'[rk]))>>
            /\ req_ok =>
                /\ buckets'[rk].tokens =
                        Refill(Found(rk, apiKeys[k].rate_limit_rpm), now).tokens - TicksPerPeriod
            /\ (req_ok /\ ~trade_ok) =>
                /\ headers = <<apiKeys[k].rate_limit_tpm, Remaining(buckets'[tk]),
                               IntOf(ResetIn(buckets'[tk]))>>
                /\ buckets'[tk].tokens < TicksPerPeriod]_vars

\* A trade check denied by the request bucket before any trade bucket exists
\* for the key, and the key's limits differ.
C10_Witness ==
    /\ lastCheck.fn = "require_trade_limit"
    /\ lastCheck.detail = "Request rate limit exceeded"
    /\ buckets[CacheKey(lastCheck.key, "tpm")] = None
    /\ apiKeys[lastCheck.key].rate_limit_rpm # apiKeys[lastCheck.key].rate_limit_tpm

\* C11 as stated: at every consumption check for a key whose configured limit
\* of a class is R, the bucket consulted for that class has capacity R and
\* refills at R per period, also after the configured limit was changed
\* between two requests.
C11_BucketMatchesConfiguredLimit ==
    [][lastCheck'.n # lastCheck.n =>
        LET k == lastCheck'.key
        IN  /\ buckets'[CacheKey(k, "rpm")].rate = apiKeys[k].rate_limit_rpm
            /\ (lastCheck'.fn = "require_trade_limit"
                    /\ lastCheck'.detail # "Request rate limit exceeded")
                => buckets'[CacheKey(k, "tpm")].rate = apiKeys[k].rate_limit_tpm]_vars

\* Every session has come back from upsert_position.
AllReturned == \A s \in Sessions : spc[s] \in {"returned", "IntegrityError"}

\* The orders the sessions can be put in.
Orders == {o \in [Sessions -> Sessions] : \A i, j \in Sessions : o[i] = o[j] => i = j}

\* The row left by the upserts of the sessions made one after the other, from
\* the i-th of the order on.
RECURSIVE Serial(_, _, _)
Serial(position, order, i) ==
    IF i > MaxSessions THEN position
    ELSE Serial(Apply(position, sargs[order[i]]), order, i + 1)

\* C12 as stated: when concurrent upserts on one key have all come back, the
\* row holds the amount and status that making them one after the other, in
\* some order, leaves: no update is lost.
C12_UpsertsSerialize ==
    AllReturned =>
        \E o \in Orders :
            /\ ledger.token_amount = Serial(row0, o, 1).token_amount
            /\ ledger.status = Serial(row0, o, 1).status

\* C13 as stated: every successful execute on a key, a sell as well as a buy,
\* has gone through the position upsert of the key.
C13_SellsReachLedger ==
    \A r \in Reqs :
        (IsExecute(r) /\ pc[r] = "done" /\ resp[r].code = 200) => calls[r].upsert_position = 1

\* C14: an execute request calls the position upsert at most once; it has
\* called it once past the update of a successful buy, and then its row was
\* committed as confirmed before; a request that is no successful buy, an
\* execution failed at the quote, the key or execute_trade among them, never
\* calls it, and so leaves the positions alone.
C14_UpsertOnceOnConfirmedBuy ==
    \A r \in Reqs :
        IsExecute(r) =>
            LET bought == resultOf[r] # None /\ resultOf[r].success /\ req[r].side = "buy"
            IN  /\ calls[r].upsert_position <= 1
                /\ calls[r].upsert_position = 1 => (bought /\ RowOf(r).status = "confirmed")
                /\ (bought /\ pc[r] \in {"e_upsert_commit", "e_finish", "respond", "done"})
                        => calls[r].upsert_position = 1
                /\ pc[r] \in {"e_upsert", "e_upsert_commit"} => calls[r].execute_trade = 1

\* A buy handed back confirmed with its position stored, and an execution that
\* failed handed back with no upsert made.
C14_Witness ==
    \E r, q \in Reqs :
        /\ IsExecute(r) /\ pc[r] = "done" /\ resp[r].code = 200 /\ req[r].side = "buy"
        /\ calls[r].upsert_position = 1 /\ positions[req[r].market] # None
        /\ IsExecute(q) /\ pc[q] = "done" /\ resp[q].code = 500 /\ ~resultOf[q].success
        /\ calls[q].upsert_position = 0

Abs(x) == IF x < 0 THEN 0 - x ELSE x

\* |f - g| <= tol, of fractions.
Within(f, g, tol) == Abs(f.n * g.d - g.n * f.d) * tol.d <= tol.n * f.d * g.d

\* C15: an upsert of (d, q) on a row of amount a and average p with a + d > 0
\* stores the amount a + d and, as a float, the average (p*a + q*d)/(a + d);
\* with no row it creates one of amount d and entry price q.
C15_UpsertArithmetic ==
    [][hist' # hist =>
        LET d == hist'[Len(hist')].token_amount
            q == hist'[Len(hist')].entry_price
        IN  IF ledger # None
            THEN LET a == ledger.token_amount
                     p == ledger.avg_entry_price
                 IN  a + d > 0 =>
                        /\ ledger'.token_amount = a + d
                        /\ ledger'.avg_entry_price.d \in {Pow2(i) : i \in 0..FloatBits}
                        /\ Within(ledger'.avg_entry_price,
                                  Frac(p.n * a + q * d * p.d, p.d * (a + d)),
                                  Frac(1, 2 * FloatScale))
            ELSE /\ ledger'.token_amount = d
                 /\ ledger'.avg_entry_price = Frac(q, 1)]_vars

\* A buy at another price on an existing row, the new average no whole number;
\* and, from no row, a row created.
C15_Witness ==
    /\ Len(hist) = 1
    /\ \/ /\ row0 # None
          /\ hist[1].token_amount > 0
          /\ ledger.token_amount = row0.token_amount + hist[1].token_amount
          /\ ledger.avg_entry_price.d # 1
       \/ /\ row0 = None
          /\ ledger.token_amount = hist[1].token_amount
          /\ ledger.token_amount > 0

\* C16 as stated: after any sequence of upserts, of positive, zero or negative
\* deltas, the stored amount of a position is >= 0.
C16_AmountsNonNegative == ledger # None => ledger.token_amount >= 0

IsBuy(a) == a.token_amount > 0

\* C17: two buys made on the same row, or on no row, in either order leave the
\* same amount and, within the rounding of the floats, the same average.
C17_BuysCommute ==
    (Len(hist) = 2 /\ IsBuy(hist[1]) /\ IsBuy(hist[2])) =>
        LET other == Apply(Apply(row0, hist[2]), hist[1])
        IN  /\ ledger.token_amount = other.token_amount
            /\ Within(ledger.avg_entry_price, other.avg_entry_price, Frac(2, FloatScale))

\* Two buys of different amounts at different prices on an existing row.
C17_Witness ==
    /\ Len(hist) = 2 /\ IsBuy(hist[1]) /\ IsBuy(hist[2])
    /\ row0 # None
    /\ hist[1].token_amount # hist[2].token_amount
    /\ hist[1].entry_price # hist[2].entry_price
    /\ ledger.avg_entry_price # row0.avg_entry_price

\* C18 as stated: cancelled at any suspension point, the loop ends with no
\* exception leaving broadcast_loop and no send started after the cancel, and
\* close_all then runs on every adapter.
C18_Original ==
    /\ lpc # "cancelled"
    /\ ~sentAfterCancel
    /\ life = "closed" => closeCalls = Adapters

\* C18 amended: cancelled in the interval sleep, in the snapshot or in a send,
\* the loop returns with no exception; cancelled in the back-off sleep, the
\* CancelledError leaves broadcast_loop and lifespan passes over it; in both
\* cases no send is started after the cancel, and the shutdown goes on to call
\* close() on every adapter.
C18_CancelledAndClosed ==
    /\ [](/\ lpc = "returned" => cancelAt \in {"sleep", "snapshot", "send"}
          /\ lpc = "cancelled" => cancelAt = "backoff"
          /\ ~sentAfterCancel
          /\ life = "closed" => (closeCalls = Adapters /\ lpc \in {"returned", "cancelled"}))
    /\ (life = "awaiting") ~> (life = "closed")

\* The loop was cancelled in its back-off sleep and the adapters were closed.
C18_Witness ==
    /\ life = "closed"
    /\ lpc = "cancelled"
    /\ cancelAt = "backoff"
    /\ closeCalls = Adapters

\* The sockets of the round whose send ended as `out` says.
SentAs(log, outs) == {x[1] : x \in {y \in Range(log) : y[2] \in outs}}

\* C19: the step that completes a round removes from the subscribers every
\* socket whose send failed in the round and no other; every socket of the
\* round's copy was sent to, whichever sends failed before.
C19_DeadPrunedOthersKept ==
    [][rounds' # rounds =>
        /\ SentAs(sends', {"Exception"}) \cap clients' = {}
        /\ clients \ clients' \subseteq SentAs(sends', {"Exception"})
        /\ SentAs(sends', {"sent"}) \cap (clients \ clients') = {}
        /\ SentAs(sends', {"sent", "Exception"}) = copy']_vars

\* A round whose first send failed and whose second send went through: the
\* first socket is pruned, the second stays.
C19_Witness ==
    /\ lpc = "sleep" /\ rounds >= 1
    /\ Len(sends) = 2
    /\ sends[1][2] = "Exception" /\ sends[2][2] = "sent"
    /\ sends[1][1] \notin clients /\ sends[2][1] \in clients

\* C20: whatever connects and disconnects while a round is suspended in a
\* send, the loop goes on to the next send or completes the round and sleeps
\* for the next one; only a cancellation ends the round early, pruning a
\* socket its handler has discarded raises nothing, and every round that has
\* reached its sends is completed unless the loop is cancelled.
C20_RoundSurvivesChurn ==
    /\ [][lpc = "send" =>
            /\ lpc' \in {"send", "sleep", "returned"}
            /\ lpc' = "sleep" => (rounds' = rounds + 1 /\ clients' = clients \ Range(dead'))
            /\ lpc' = "returned" => cancelAt' = "send"]_vars
    /\ \A n \in 0..MaxRounds :
            (lpc = "send" /\ rounds = n) ~> (rounds = n + 1 \/ lpc = "returned")

\* The round is suspended in a send to a socket its handler has discarded
\* since the copy was taken, and another socket has connected since.
C20_Witness ==
    /\ lpc = "send"
    /\ sock[cur] = "closed" /\ cur \in copy /\ cur \notin clients
    /\ clients \ copy # {}

\* The configured interval has elapsed since the last rotation.
IntervalElapsed == (mono - lastRotation) >= CanaryInterval

\* A handler reads canary_generator.current in this step.
ReadsCanary == current /= None /\ Current /\ UNCHANGED <<mono, wall>>

\* C21: a read of the canary made within the configured interval of the last
\* rotation rotates nothing and returns the canary as it is, so two such reads
\* return the identical market id, prices and injected_at; a read made once the
\* interval has elapsed rotates and returns a canary with a later injected_at
\* whose price was drawn anew by that read.
C21_RotatesOnlyWhenDue ==
    [][ReadsCanary =>
            /\ got' = current'
            /\ ~IntervalElapsed =>
                    /\ current' = current
                    /\ draws' = draws
                    /\ got = current => got' = got
            /\ IntervalElapsed =>
                    /\ current'.market_id = current.market_id
                    /\ current'.injected_at > current.injected_at
                    /\ draws' = draws + 1
                    /\ current'.outcomes.yes \in CanaryPrices
                    /\ current'.outcomes.no = PriceScale - current'.outcomes.yes]_vars

\* A read has rotated the canary after the one lifespan generated, and the
\* latest read returned the canary that is current.
C21_Witness == draws = 2 /\ got = current /\ got.injected_at > MsPerSecond

\* The output carries the canary the handler read.
HasCanary(o) ==
    IF o.kind = "market_snapshot"
    THEN o.canary = got
    ELSE \E i \in DOMAIN o.data : o.data[i] = CanaryOdds(got)

\* C22: with the canary enabled, every response of the market listing, every
\* sync snapshot and every broadcast payload contains the current canary entry.
C22_CanaryInEveryOutput ==
    (enabled /\ feedOut /= None /\ feedOut.kind \in {"markets", "sync", "market_snapshot"})
        => HasCanary(feedOut)

\* C23: the paginated market fetch makes at most 25 page requests whatever the
\* upstream does, stops at the first failed request, empty page or missing
\* cursor, and in every case returns the records accumulated so far without
\* raising.
C23_BoundedFetchNeverRaises ==
    /\ pcount <= PageCap
    /\ ppc /= "raised"
    /\ ppc = "returned" => pres = <<pall>>

\* The cache holds markets stored less than the venue's TTL ago.
Fresh == cache /= <<>> /\ (ctime - cacheTime) < CacheTtl(venue)

\* C24: for every adapter, a get_markets or search_markets call made while the
\* cache holds a non-empty list stored less than the TTL ago begins no upstream
\* fetch; only then is a call answered at once; every other call begins a
\* re-fetch of the list, which on its answer replaces the cached list and its
\* timestamp.
C24_AnsweredFromCache ==
    [][\A c \in Callers :
          /\ (cpc[c] = "idle" /\ Fresh /\ ccall'[c].op /= "market") => cpc'[c] = "idle"
          /\ (cpc[c] = "idle" /\ cpc'[c] /= "idle" /\ ccall'[c].op /= "market")
                => cpc'[c] = "fetching"
          /\ (cpc' = cpc /\ cres' /= cres /\ "list" \in DOMAIN cres') => Fresh
          /\ (cpc[c] = "fetching" /\ cpc'[c] = "idle" /\ cres' /= Raised) =>
                /\ cache' \in {<<ctime>>, <<>>}
                /\ cacheTime' = ccall[c].now]_vars

\* C24 for the venues other than Polymarket.
C24_OtherVenues == [][venue /= "polymarket" => C24_AnsweredFromCache!1]_vars

\* C25: for each venue at most one refill of the cache is in flight at any time.
C25_OneRefillInFlight == Cardinality({c \in Callers : cpc[c] = "fetching"}) <= 1

\* C26: for every adapter and every input, execute_trade returns a TradeResult
\* and does not raise; a key of the wrong type yields success=false with the
\* invalid-key-type message before anything is signed or submitted; an error
\* of the network or a library, and a receipt without success status, yield
\* success=false with a non-empty error message and no output amount.
C26_ExecuteReportsEveryFailure ==
    xres /= None =>
        /\ xres.success \in BOOLEAN
        /\ ~KeyMatches(xvenue, xkey) =>
                /\ xres = Failure(InvalidKeyText(xvenue))
                /\ xsigned = 0
                /\ xsent = 0
        /\ ~xres.success =>
                /\ xres.error_message \notin {"", NoneVal}
                /\ xres.output_amount = Null
        /\ (\E i \in DOMAIN xreceipts : xreceipts[i] = 0) => ~xres.success

\* C26 without the message being non-empty: the receipts alone.
C26_RevertedReceiptFails ==
    (xres /= None /\ \E i \in DOMAIN xreceipts : xreceipts[i] = 0) => ~xres.success

\* C26 for the key type, the absence of raising and the output amount.
C26_KeyTypeAndShape ==
    xres /= None =>
        /\ xres.success \in BOOLEAN
        /\ ~KeyMatches(xvenue, xkey) =>
                /\ xres = Failure(InvalidKeyText(xvenue))
                /\ xsigned = 0
                /\ xsent = 0
        /\ ~xres.success => xres.output_amount = Null

\* The places of the trade call and of the fee approval in a prepared list.
TradeAt(txs) == {i \in DOMAIN txs : txs[i].call = "trade"}

FeeAt(txs) == {i \in DOMAIN txs : txs[i].call = "approve" /\ txs[i].spender = "fee_account"}

\* C27: in every list prepare_transaction of an EVM venue returns there is
\* exactly one trade call, every approval of the settlement token for a trading
\* contract comes before it, and the fee approval, present only with a fee
\* account configured and fee_bps > 0, comes after it as the last element; the
\* list of the Solana venue holds exactly one transaction.
C27_PreparedOrder ==
    xtxs \notin {None, Raised} =>
        LET txs == xtxs.txs
        IN  IF xvenue \in EvmVenues
            THEN /\ Cardinality(TradeAt(txs)) = 1
                 /\ \A i \in DOMAIN txs \ (TradeAt(txs) \cup FeeAt(txs)) :
                        /\ txs[i].call = "approve"
                        /\ \A t \in TradeAt(txs) : i < t
                 /\ Cardinality(FeeAt(txs)) <= 1
                 /\ \A i \in FeeAt(txs) :
                        /\ xfeeAccount /= "" /\ xfeeBps > 0
                        /\ i = Len(txs)
                        /\ \A t \in TradeAt(txs) : t < i
            ELSE Len(txs) = 1

\* Opinion prepared its two approvals, the trade and the fee approval.
C27_Witness ==
    /\ xvenue = "opinion"
    /\ xtxs \notin {None, Raised}
    /\ Len(xtxs.txs) = 4
    /\ FeeAt(xtxs.txs) = {4}

\* The rows of the trades table that request r added.
RowsOf(r) == {i \in DOMAIN trades : trades[i].req = r}

\* What the handler of request r hands or has handed back, or None.
Answer(r) == IF resp[r] /= None THEN resp[r] ELSE pending[r]

\* C28: prepare hands the transactions back only when a row with status
\* prepared and mode prepare of that request has been committed; when the
\* adapter's prepare_transaction failed no row is persisted, and when the
\* persistence failed no transactions are returned.
C28_PreparedRowBeforeTransactions ==
    \A r \in Reqs :
        req[r].op = "prepare" =>
            /\ (Answer(r) /= None /\ Answer(r).code = 200) =>
                    \E i \in RowsOf(r) :
                        trades[i].status = "prepared" /\ trades[i].mode = "prepare"
            /\ quoteOf[r] = Raised => RowsOf(r) = {}
            /\ (Answer(r) /= None /\ Answer(r).code = 500) => RowsOf(r) = {}
            /\ RowsOf(r) = {} => (Answer(r) = None \/ Answer(r).code /= 200)

\* One prepare was answered with its transactions, another failed in the
\* adapter, or in the commit, and was answered without.
C28_Witness ==
    \E r, q \in Reqs :
        /\ req[r].op = "prepare" /\ resp[r] /= None /\ resp[r].code = 200
        /\ req[q].op = "prepare" /\ resp[q] /= None /\ resp[q].code = 500

\* C29: the quote stage leaves the persistent store unchanged: no step of a
\* quote request, whether it succeeds or fails, creates or modifies a trade row
\* or a position row.
C29_QuoteLeavesStoreAlone ==
    [][\A r \in Reqs :
          (req'[r].op = "quote" /\ (pc'[r] /= pc[r] \/ resp'[r] /= resp[r]))
              => UNCHANGED <<trades, positions>>]_vars

\* A quote was answered with a QuoteResponse and another with an error.
C29_Witness ==
    \E r, q \in Reqs :
        /\ req[r].op = "quote" /\ resp[r] /= None /\ resp[r].code = 200
        /\ req[q].op = "quote" /\ resp[q] /= None /\ resp[q].code = 400


\* What the stages that have run did with the fee.
FeeOutcomes == {fquote, fprepare, fexecute} \ {None}

\* f is amount * 50 / 10000.
IsHalfPercent(f, amount) == f.n * 10000 * amount.d = amount.n * 50 * f.d

\* C30: the platform fee is amount * 50 / 10000 of the amount the caller asked
\* for: the fee of every committed row is exactly that, the quote, prepare and
\* execute stages report one and the same fee for the same amount, that value
\* as a float, and the fee returned with a row is the float of the fee stored.
C30_FeeOfRequestedAmount ==
    /\ \A o \in FeeOutcomes :
          /\ o.stored /= Null => IsHalfPercent(o.stored[1], famount)
          /\ o.returned /= Null =>
                o.returned[1] = Float(Frac(famount.n * 50, famount.d * 10000))
          /\ (o.stored /= Null /\ o.returned /= Null) => o.returned[1] = Float(o.stored[1])
    /\ \A o, p \in FeeOutcomes :
          (o.returned /= Null /\ p.returned /= Null) => o.returned = p.returned

\* The three stages reported a fee that is not zero, and prepare and execute
\* committed their rows.
C30_Witness ==
    /\ fquote /= None /\ fprepare /= None /\ fexecute /= None
    /\ fquote.returned /= Null /\ fprepare.returned /= Null /\ fexecute.returned /= Null
    /\ fquote.returned[1].n > 0
    /\ fprepare.stored /= Null /\ fexecute.stored /= Null
    /\ fprepare.stored[1] /= fprepare.returned[1]


\* The markets of the scan that are active with a yes-price that is not None.
KnownActive == {i \in DOMAIN aseen : aseen[i].is_active /\ aseen[i].yes_price /= Null}

\* |f - g| >= t, of fractions.
ApartBy(f, g, t) == Abs(f.n * g.d - g.n * f.d) * t.d >= t.n * f.d * g.d

\* The pairs the scan has to report for min_spread t: two markets of
\* different venues with one normalized title and prices at least t apart.
DuePairs(t) ==
    {pr \in KnownActive \X KnownActive :
        /\ pr[1] < pr[2]
        /\ aseen[pr[1]].platform /= aseen[pr[2]].platform
        /\ Normalized(aseen[pr[1]].title) = Normalized(aseen[pr[2]].title)
        /\ ApartBy(aseen[pr[1]].yes_price[1], aseen[pr[2]].yes_price[1], t)}

\* The opportunity o reports the markets b and s as buy and sell side, the
\* buy side not being the dearer one.
Reports(o, b, s) ==
    /\ o.buy_platform = b.platform /\ o.sell_platform = s.platform
    /\ Normalized(o.market_title) = Normalized(b.title)
    /\ o.buy_price = Float(b.yes_price[1]) /\ o.sell_price = Float(s.yes_price[1])
    /\ ~FracLess(s.yes_price[1], b.yes_price[1])

ReportsPair(o, pr) ==
    Reports(o, aseen[pr[1]], aseen[pr[2]]) \/ Reports(o, aseen[pr[2]], aseen[pr[1]])

\* C31: before truncation the scan reports exactly the cross-venue pairs of
\* active markets with a known yes-price that share a normalized title and
\* whose spread is at least min_spread: each once, no other, the buy venue
\* being the one with the lower price.
C31_ExactlyTheSpreadPairs ==
    apc \in {"sort", "done"} =>
        /\ Len(aopps) = Cardinality(DuePairs(amin[1]))
        /\ \A pr \in DuePairs(amin[1]) : \E k \in DOMAIN aopps : ReportsPair(aopps[k], pr)
        /\ \A k \in DOMAIN aopps : \E pr \in DuePairs(amin[1]) : ReportsPair(aopps[k], pr)

\* What the scan does report: in every opportunity the buy side is not the
\* dearer one, the venues differ and the float spread is at least the float
\* min_spread.
C31_BuyLowSellHigh ==
    apc \in {"sort", "done"} =>
        \A k \in DOMAIN aopps :
            /\ ~FracLess(aopps[k].sell_price, aopps[k].buy_price)
            /\ aopps[k].buy_platform /= aopps[k].sell_platform
            /\ ~FracLess(FloatSub(aopps[k].sell_price, aopps[k].buy_price), Float(amin[1]))

\* The number of entries of the list s equal to o.
CountOf(s, o) == Cardinality({i \in DOMAIN s : s[i] = o})

\* The list res is sorted by spread, largest first.
SpreadDescending(res) ==
    \A i, j \in DOMAIN res : i < j => ~FracLess(res[i].spread, res[j].spread)

\* The list res holds entries of all, and every entry of all with a larger
\* spread than one of res.
LargestOf(res, all) ==
    /\ \A i \in DOMAIN res : CountOf(res, res[i]) <= CountOf(all, res[i])
    /\ \A k \in DOMAIN all, i \in DOMAIN res :
          FracLess(res[i].spread, all[k].spread) => CountOf(res, all[k]) = CountOf(all, all[k])

\* C32: the result is sorted by spread in non-increasing order and truncated
\* to the limit: for every accepted limit it has at most limit entries and
\* consists of the limit largest-spread opportunities.
C32_SortedAndTruncated ==
    apc = "done" =>
        /\ SpreadDescending(ares.list)
        /\ Len(ares.list) <= alimit[1]
        /\ Len(ares.list) = alimit[1] \/ Len(ares.list) = Len(aopps)
        /\ LargestOf(ares.list, aopps)

\* With a limit that is not negative the result is as C32 describes it.
C32_NonNegativeLimit ==
    (apc = "done" /\ alimit[1] >= 0) => C32_SortedAndTruncated

\* The markets of venue v that the scan was given.
RECURSIVE SeenOf(_, _)
SeenOf(v, seen) ==
    IF seen = <<>> THEN <<>>
    ELSE (IF Head(seen).platform = v THEN <<Head(seen)>> ELSE <<>>) \o SeenOf(v, Tail(seen))

\* The groups of a scan over the venues from the n-th on, given only what the
\* venues that answered returned.
RECURSIVE GroupsFrom(_, _)
GroupsFrom(groups, n) ==
    IF n > Len(ArbVenues) THEN groups
    ELSE GroupsFrom(Collected(groups, ArbVenues[n], SeenOf(ArbVenues[n], aseen)), n + 1)

\* C33: a venue whose fetch fails contributes no market and does not abort
\* the scan: every venue is visited, and the result is the scan over the
\* markets of the venues that answered, whichever venues failed.
C33_FailedVenuesLeftOut ==
    /\ apc /= "collect" => anext = Len(ArbVenues) + 1
    /\ \A i \in DOMAIN aseen : aseen[i].platform \notin afailed
    /\ apc = "done" =>
          ares.list = Truncated(SortedBySpread(Opportunities(GroupsFrom(<<>>, 1), amin[1])),
                                alimit[1])

\* A scan that lost its second venue and reported a pair of the two others.
C33_Witness ==
    /\ apc = "done"
    /\ afailed = {ArbVenues[2]}
    /\ Len(ares.list) > 0
    /\ ares.list[1].buy_platform \in {ArbVenues[1], ArbVenues[3]}
    /\ ares.list[1].sell_platform \in {ArbVenues[1], ArbVenues[3]}


\* The prices of one side of a book.
PricesOf(side) == {side[i][1] : i \in DOMAIN side}

\* p is the largest (smallest) of the prices ps.
IsMax(p, ps) == p \in ps /\ \A q \in ps : ~FracLess(p, q)

IsMin(p, ps) == p \in ps /\ \A q \in ps : ~FracLess(q, p)

\* C34: in every order book an adapter's get_orderbook returns the bids are
\* sorted by price descending and the asks ascending, best_bid is the largest
\* bid price (absent with no bids), best_ask the smallest ask price (absent
\* with no asks), and spread is best_ask - best_bid whenever both exist.
C34_BookSortedAndDerived ==
    (bres /= None /\ bres /= Raised) =>
        /\ \A i, j \in DOMAIN bres.bids : i < j => ~FracLess(bres.bids[i][1], bres.bids[j][1])
        /\ \A i, j \in DOMAIN bres.asks : i < j => ~FracLess(bres.asks[j][1], bres.asks[i][1])
        /\ IF bres.bids = <<>> THEN BestBid(bres) = Null
           ELSE BestBid(bres) /= Null /\ IsMax(BestBid(bres)[1], PricesOf(bres.bids))
        /\ IF bres.asks = <<>> THEN BestAsk(bres) = Null
           ELSE BestAsk(bres) /= Null /\ IsMin(BestAsk(bres)[1], PricesOf(bres.asks))
        /\ (bres.bids /= <<>> /\ bres.asks /= <<>>) =>
              /\ BookSpread(bres) /= Null
              /\ \E b \in PricesOf(bres.bids), a \in PricesOf(bres.asks) :
                    /\ IsMax(b, PricesOf(bres.bids)) /\ IsMin(a, PricesOf(bres.asks))
                    /\ BookSpread(bres)[1] = Frac(a.n * b.d - b.n * a.d, a.d * b.d)

\* The books of Kalshi and Polymarket are sorted, and their best bid and ask
\* are the largest bid and the smallest ask.
C34_SortingAdapters ==
    (bvenue \in {"kalshi", "polymarket"} /\ bres /= None /\ bres /= Raised) =>
        /\ \A i, j \in DOMAIN bres.bids : i < j => ~FracLess(bres.bids[i][1], bres.bids[j][1])
        /\ \A i, j \in DOMAIN bres.asks : i < j => ~FracLess(bres.asks[j][1], bres.asks[i][1])
        /\ bres.bids /= <<>> => IsMax(BestBid(bres)[1], PricesOf(bres.bids))
        /\ bres.asks /= <<>> => IsMin(BestAsk(bres)[1], PricesOf(bres.asks))


\* The adapters the loop of initialize_all or close_all has passed.
Visited == {RegistryOrder[i] : i \in 1..(rnext - 1)}

\* C35: initialize_all awaits initialize of every registered adapter exactly
\* once, a failing initialize neither leaving initialize_all nor keeping the
\* adapters after it from theirs; close_all likewise awaits every close and
\* swallows what it raises.
C35_EveryAdapterOnce ==
    /\ rpc /= "raised"
    /\ rpc = "initialize_all" =>
          \A a \in Adapters5 : rinit[a] = (IF a \in Visited THEN 1 ELSE 0)
    /\ rpc \in {"serving", "close_all", "closed"} => \A a \in Adapters5 : rinit[a] = 1
    /\ rpc = "close_all" =>
          \A a \in Adapters5 : rclose[a] = (IF a \in Visited THEN 1 ELSE 0)
    /\ rpc = "closed" => \A a \in Adapters5 : rclose[a] = 1

\* The first adapter failed to initialize and to close, and every adapter
\* was initialized and closed.
C35_Witness ==
    /\ rpc = "closed"
    /\ "kalshi" \in rfailed /\ "kalshi.close" \in rfailed
    /\ \A a \in Adapters5 : rinit[a] = 1 /\ rclose[a] = 1


\* C36: no operation serves a Market from the list cache once the list is
\* older than the venue's TTL: get_market hands back an entry of the cache
\* only while the cache is within its TTL.
C36_NoStaleMarketServed ==
    [][(cres' /= cres /\ "from" \in DOMAIN cres' /\ cres'.from = "cache")
          => (ctime - cacheTime') < CacheTtl(venue)]_vars

\* C36 for Kalshi, whose get_market goes through the TTL test.
C36_Kalshi == [][venue = "kalshi" => C36_NoStaleMarketServed!1]_vars


\* C37: in every state of the position store a position is closed if and only
\* if its stored amount is zero: a row created with amount zero is closed, and
\* a closed position that receives a buy is open again.
C37_ClosedIffZero ==
    ledger /= None => (ledger.status = "closed" <=> ledger.token_amount = 0)

\* One direction holds: an open row of an existing position that an upsert
\* brought to zero or below is closed.
C37_EmptiedRowsClosed ==
    (ledger /= None /\ Len(hist) > 0 /\ row0 /= None
        /\ row0.token_amount + hist[1].token_amount <= 0 /\ Len(hist) = 1)
        => ledger.status = "closed" /\ ledger.token_amount = 0

\* C38: the store holds at most one bucket per (identity, limit class) for its
\* whole lifetime: a bucket once stored is never replaced, and every check of
\* the pair, however the first checks interleave, consumes from that bucket.
C38_OneBucketPerPair ==
    [][/\ gstore /= 0 => gstore' = gstore
       /\ \A i, j \in DOMAIN gconsumed' : gconsumed'[i] = gconsumed'[j]]_vars

\* The tokens, in units of 1 / TicksPerPeriod, that a step took from the bucket
\* under ck: what the bucket (created full if absent) holds once refilled to
\* the present instant, less what it holds after the step.
TakenFrom(ck, rate) == Refill(Found(ck, rate), now).tokens - buckets'[ck].tokens

\* C39: a trade check that passes the request-class check takes exactly one
\* token from the request bucket, whether the trade bucket then allows or
\* denies; a trade-class denial takes nothing from the trade bucket and gives
\* nothing back, a trade-class allowance takes exactly one token from each of
\* the two buckets; the buckets of the other keys are left alone.
C39_OneRequestTokenEitherWay ==
    [][(lastCheck'.n # lastCheck.n /\ lastCheck'.fn = "require_trade_limit"
            /\ lastCheck'.detail # "Request rate limit exceeded") =>
        LET k == lastCheck'.key
            rk == CacheKey(k, "rpm")
            tk == CacheKey(k, "tpm")
        IN  /\ TakenFrom(rk, apiKeys[k].rate_limit_rpm) = TicksPerPeriod
            /\ lastCheck'.detail = "Trade rate limit exceeded" =>
                    TakenFrom(tk, apiKeys[k].rate_limit_tpm) = 0
            /\ lastCheck'.status = 200 =>
                    TakenFrom(tk, apiKeys[k].rate_limit_tpm) = TicksPerPeriod
            /\ lastCheck'.status = 200 \/ lastCheck'.detail = "Trade rate limit exceeded"
            /\ \A ck \in CacheKeys \ {rk, tk} : buckets'[ck] = buckets[ck]]_vars

\* A trade check denied by the trade bucket has just charged a request bucket
\* that held more than one token: the bucket is one token short of full.
C39_Witness ==
    /\ lastCheck.fn = "require_trade_limit"
    /\ lastCheck.detail = "Trade rate limit exceeded"
    /\ apiKeys[lastCheck.key].rate_limit_rpm > 1
    /\ buckets[CacheKey(lastCheck.key, "rpm")].last_refill = now
    /\ buckets[CacheKey(lastCheck.key, "rpm")].tokens =
            (apiKeys[lastCheck.key].rate_limit_rpm - 1) * TicksPerPeriod

\* The markets at positions offset .. offset+limit-1 of the platform's list,
\* as entries of the response.
PageOf(platform, n, limit, offset) ==
    [i \in 1..(Min(offset + limit, n) - offset) |-> MarketToOdds(platform, offset + i)]

\* C40: the response to a listing of one platform for (offset, limit) holds
\* exactly the markets at positions offset .. offset+limit-1 of the platform's
\* list, so that consecutive pages enumerate the list.
C40_PageOfThePlatformList ==
    (lres /= None /\ lreq.ok) =>
        lres.data = PageOf(lreq.platform, llen, lreq.limit, lreq.offset)

\* The first page is right when the list fills it or no canary is injected.
C40_FirstPage ==
    (lres /= None /\ lreq.ok /\ lreq.offset = 0 /\ (llen >= lreq.limit \/ ~lenabled)) =>
        lres.data = PageOf(lreq.platform, llen, lreq.limit, 0)

====
